---- MODULE Spec2Model ----
(***************************************************************************)
(* A model of the httpcache round tripper (RFC 9111 client-side cache):    *)
(* the decision engine of roundtripper.go, the Vary matcher, the response  *)
(* storer, the cache invalidator and the validation response handler,      *)
(* running as concurrent round trips over one key-value backend.           *)
(*                                                                         *)
(* Optional values are sequences: <<>> is "absent", <<v>> is "present".    *)
(* Times and durations are whole seconds.                                  *)
(***************************************************************************)
EXTENDS Integers, Sequences, FiniteSets, TLC

VARIABLES
    now,       \* the wall clock (internal.Clock)
    backend,   \* the key-value backend (driver.Conn): key -> stored value
    trips,     \* the foreground round trips, one record per caller
    bg,        \* the background revalidation tasks, by spawning round trip
    ntrips,    \* how many round trips have been started
    last,      \* history: per URL key, the round trip begun last for it
    work,      \* the workload the callers and the origin draw from
    keyer,     \* a URL keyer at work: the URL text it was given, the keys it made
    mem,       \* the in-memory backend (memcache) and its concurrent callers
    swr        \* the two goroutines and the channel of each background task

vars == <<now, backend, trips, bg, ntrips, last, work, keyer, mem, swr>>

----------------------------------------------------------------------------
(* Bounds of the model *)

\* The clock advances at most MaxTicks times in one behaviour.
MaxTicks == 3

\* One tick of the clock, in seconds.
Quantum == 5

\* At most MaxTrips round trips are started in one behaviour.
MaxTrips == 3

\* At most MaxTasks background tasks are followed goroutine by goroutine.
MaxTasks == 2

----------------------------------------------------------------------------
(* Small helpers *)

Max(a, b) == IF a >= b THEN a ELSE b

\* The first value of an optional, or d.
OrElse(o, d) == IF o = <<>> THEN d ELSE o[1]

----------------------------------------------------------------------------
(* Cache-Control directives (RawDeltaSeconds, parseDirectives and the       *)
(* accessors of CCRequestDirectives and CCResponseDirectives).             *)
(* A directive map is the set of <<name, raw argument>> pairs that         *)
(* parseDirectives collects; {} is the map of an absent header and "" the  *)
(* raw argument of a bare token.                                           *)

\* strconv.ParseInt on the numerals the workloads use; any other raw
\* argument ("" of a bare token, "-1", "abc") does not parse.
DeltaSeconds == {<<"0", 0>>, <<"5", 5>>, <<"10", 10>>, <<"15", 15>>, <<"60", 60>>}

\* RawDeltaSeconds.Value: <<seconds>> when valid, <<>> otherwise.
RawDeltaSecondsValue(raw) ==
    IF \E n \in DeltaSeconds : n[1] = raw
    THEN <<(CHOOSE n \in DeltaSeconds : n[1] = raw)[2]>>
    ELSE <<>>

hasToken(d, token) == \E p \in d : p[1] = token

\* The raw argument of a directive that is present.
RawOf(d, token) == (CHOOSE p \in d : p[1] = token)[2]

getDurationDirective(d, token) ==
    IF hasToken(d, token) THEN RawDeltaSecondsValue(RawOf(d, token)) ELSE <<>>

\* The Cache-Control header of a request or of a response, parsed.
ParseCCRequestDirectives(req) == req.cc
ParseCCResponseDirectives(data) == data.cc

ReqMaxAge(d) == getDurationDirective(d, "max-age")
ReqMinFresh(d) == getDurationDirective(d, "min-fresh")
ReqNoCache(d) == hasToken(d, "no-cache")
ReqNoStore(d) == hasToken(d, "no-store")
OnlyIfCached(d) == hasToken(d, "only-if-cached")
ReqStaleIfError(d) == getDurationDirective(d, "stale-if-error")

\* CCRequestDirectives.MaxStale: the raw argument, valid when present.
HasMaxStale(d) == hasToken(d, "max-stale")
MaxStaleRaw(d) == RawOf(d, "max-stale")

RespMaxAge(d) == getDurationDirective(d, "max-age")
MustRevalidate(d) == hasToken(d, "must-revalidate")
MustUnderstand(d) == hasToken(d, "must-understand")
Immutable(d) == hasToken(d, "immutable")
RespNoStore(d) == hasToken(d, "no-store")
StaleIfError(d) == getDurationDirective(d, "stale-if-error")
StaleWhileRevalidate(d) == getDurationDirective(d, "stale-while-revalidate")

\* CCResponseDirectives.NoCache with RawCSVSeq.Value: the directive is
\* unqualified when its argument is empty, qualified when it lists fields.
HasRespNoCache(d) == hasToken(d, "no-cache")
IsRespNoCacheQualified(d) == hasToken(d, "no-cache") /\ RawOf(d, "no-cache") # ""

----------------------------------------------------------------------------
(* URLs and keys *)

\* The URLs callers request: two resources of one origin, the first also
\* under an upper-case spelling of its host.
ReqURLs == {"http://h/a", "http://H/a", "http://h/b"}

\* makeURLKey: scheme://host[:port]path[?query], lowercased.
makeURLKey(u) ==
    CASE u = "http://h/a" -> "http://h/a"
      [] u = "http://H/a" -> "http://h/a"
      [] u = "http://h/b" -> "http://h/b"
      [] u = "http://o/b" -> "http://o/b"

\* scheme, host and port of a URL, compared case-insensitively by sameOrigin.
Origin(u) ==
    CASE u = "http://h/a" -> "http://h:80"
      [] u = "http://H/a" -> "http://h:80"
      [] u = "http://h/b" -> "http://h:80"
      [] u = "http://o/b" -> "http://o:80"

sameOrigin(a, b) == Origin(a) = Origin(b)

\* The path a URL names at the origin.
PathOf(u) == IF makeURLKey(u) = "http://h/a" THEN "a" ELSE "b"

\* The keyer over URL texts of every shape.  A text is the sequence of its
\* parts, so that joining parts is concatenation and two texts are equal
\* when they spell the same string; an empty part is no part.
PathTexts == {"/a", "/A", "/a%2Fb", "/a%2fb"}

\* The URL texts a keyer is given: hierarchical URLs with and without port,
\* path and query, and opaque URIs.
URLTexts ==
    {<<s, "://", h>> \o pt \o pa \o q :
        s \in {"http", "https"}, h \in {"h", "H"},
        pt \in {<<>>} \cup {<<":", p>> : p \in {"80", "443", "8080"}},
        pa \in {<<>>} \cup {<<x>> : x \in PathTexts \ {"/a%2fb"}},
        q \in {<<>>} \cup {<<"?", x>> : x \in {"x", "X"}}}
    \cup {<<"mailto", ":", o>> : o \in {"user@h", "User@H"}}

\* strings.ToLower, part by part.
ToLower(s) ==
    CASE s = "H" -> "h"
      [] s = "/A" -> "/a"
      [] s = "/a%2Fb" -> "/a%2fb"
      [] s = "X" -> "x"
      [] s = "User@H" -> "user@h"
      [] OTHER -> s

\* net/url's unescape on a path.  No decoded path here holds a byte that
\* must be escaped, so the default escaping of a decoded path is the path.
unescape(p) == IF p \in {"/a%2Fb", "/a%2fb"} THEN "/a/b" ELSE p

NoParts(t) == SelectSeq(t, LAMBDA x : x # "")

\* url.Parse: a scheme followed by anything but a slash makes an opaque
\* URI; a scheme followed by // makes authority, path and query; a text
\* without a scheme is a path.  RawPath is kept only when the path as
\* written differs from the default escaping of its decoded form.
ParseURL(text) ==
    LET qAt == IF \E i \in 1..Len(text) : text[i] = "?"
               THEN CHOOSE i \in 1..Len(text) : text[i] = "?"
               ELSE Len(text) + 1
        query == IF qAt < Len(text) THEN text[qAt + 1] ELSE ""
        body == SubSeq(text, 1, qAt - 1)
        WithPath(u, p) ==
            [u EXCEPT !.Path = unescape(p),
                      !.RawPath = IF unescape(p) = p THEN "" ELSE p]
        blank == [Scheme |-> "", Opaque |-> "", Host |-> <<>>,
                  Path |-> "", RawPath |-> "", RawQuery |-> query]
    IN  IF Len(body) >= 3 /\ body[2] = ":"
        THEN [blank EXCEPT !.Scheme = body[1], !.Opaque = body[3]]
        ELSE IF Len(body) >= 2 /\ body[2] = "://"
        THEN LET rest == SubSeq(body, 3, Len(body))
                 hasPath == rest # <<>> /\ rest[Len(rest)] \in PathTexts
                 auth == IF hasPath THEN SubSeq(rest, 1, Len(rest) - 1) ELSE rest
                 u == [blank EXCEPT !.Scheme = body[1],
                                    !.Host = SelectSeq(auth, LAMBDA x : x # ":")]
             IN  IF hasPath THEN WithPath(u, rest[Len(rest)]) ELSE u
        ELSE IF body # <<>> THEN WithPath(blank, body[1]) ELSE blank

\* (*url.URL).EscapedPath: RawPath when it is a valid encoding of Path,
\* otherwise the default escaping of Path.
EscapedPath(u) ==
    IF u.RawPath # "" /\ unescape(u.RawPath) = u.Path
    THEN u.RawPath
    ELSE u.Path

\* splitHostPort: the host and the port of u.Host, the port empty if none.
splitHostPort(hostPort) ==
    CASE Len(hostPort) = 2 -> hostPort
      [] Len(hostPort) = 1 -> <<hostPort[1], "">>
      [] OTHER -> <<"", "">>

defaultPort(scheme) ==
    CASE scheme = "http" -> "80"
      [] scheme = "https" -> "443"
      [] OTHER -> ""

\* A keyer that keeps the scheme of an opaque URI in its key.
URLKeyWithScheme(u) ==
    IF u.Opaque # ""
    THEN <<u.Scheme, ":", ToLower(u.Opaque)>>
    ELSE LET hp == splitHostPort(u.Host)
             defaultP == defaultPort(u.Scheme)
             port == IF hp[2] = "" THEN defaultP ELSE hp[2]
             hostPort == IF port # "" /\ port # defaultP
                         THEN <<hp[1], ":", port>>
                         ELSE <<hp[1]>>
             result == <<u.Scheme, "://">> \o hostPort \o <<EscapedPath(u)>>
                       \o (IF u.RawQuery # "" THEN <<"?", u.RawQuery>> ELSE <<>>)
         IN  [i \in 1..Len(NoParts(result)) |-> ToLower(NoParts(result)[i])]

\* makeURLKey over a parsed URL: the lowercased opaque part of an opaque
\* URI, else scheme://host[:port-if-not-default]escaped-path[?raw-query],
\* lowercased as a whole.
URLKey(u) ==
    IF u.Opaque # ""
    THEN <<ToLower(u.Opaque)>>
    ELSE LET hp == splitHostPort(u.Host)
             defaultP == defaultPort(u.Scheme)
             port == IF hp[2] = "" THEN defaultP ELSE hp[2]
             hostPort == IF port # "" /\ port # defaultP
                         THEN <<hp[1], ":", port>>
                         ELSE <<hp[1]>>
             result == <<u.Scheme, "://">> \o hostPort \o <<EscapedPath(u)>>
                       \o (IF u.RawQuery # "" THEN <<"?", u.RawQuery>> ELSE <<>>)
         IN  [i \in 1..Len(NoParts(result)) |-> ToLower(NoParts(result)[i])]

\* A backend key. The reference list of a URL lives under the URL key; an
\* entry lives under its response id, the URL key joined with the hash of
\* the resolved Vary map.
RefsKey(urlKey) == [u |-> urlKey, v |-> <<>>]


\* VaryKeyer.VaryKey: the response id of a variant, url-key # hash of the
\* resolved Vary map. The hash is modelled as injective, so the id carries
\* the map itself.
VaryKey(urlKey, varyResolved) == [u |-> urlKey, v |-> <<varyResolved>>]

----------------------------------------------------------------------------
(* Requests and responses *)

\* An Accept-Language value is the sequence of its list items, each a
\* language tag t and a weight q in tenths (10 when no q parameter).
EN == <<[t |-> "en", q |-> 10]>>
FR == <<[t |-> "fr", q |-> 10]>>
ENnotFR == <<[t |-> "en", q |-> 10], [t |-> "fr", q |-> 0]>>

\* A GET request without header fields; the workloads derive theirs from it.
\*   cc: Cache-Control, al: Accept-Language, inm: If-None-Match,
\*   ims: If-Modified-Since, range: whether a Range header is present.
PlainRequest(url) ==
    [method |-> "GET", url |-> url, cc |-> {}, al |-> <<>>, inm |-> <<>>,
     ims |-> <<>>, range |-> FALSE]

\* A response without optional header fields.
\*   xs: the values of X-Httpcache-Status, xcs: those of X-Cache-Status,
\*   age: the Age header, loc / cloc: Location and Content-Location,
\*   clen: Content-Length, conn: Connection.
PlainResponse(status, body) ==
    [status |-> status, cc |-> {}, vary |-> "", etag |-> <<>>, date |-> <<>>,
     age |-> <<>>, expires |-> <<>>, lm |-> <<>>, loc |-> <<>>, cloc |-> <<>>,
     xs |-> <<>>, xcs |-> <<>>, clen |-> <<>>, conn |-> <<>>, body |-> body]

NoBody == [p |-> "", l |-> <<>>, t |-> 0]

isUnsafeMethod(req) == req.method \in {"POST", "PUT", "DELETE", "PATCH"}

\* A variant of isNonErrorStatus without the upper limit.
isNonErrorStatusOpen(status) == status >= 200

isNonErrorStatus(status) == status >= 200 /\ status < 400

\* A variant of isRequestMethodUnderstood that does not look at Range.
isRequestMethodUnderstoodAnyRange(req) == req.method \in {"GET", "HEAD"}

isRequestMethodUnderstood(req) == req.method \in {"GET", "HEAD"} /\ ~req.range

isStaleErrorAllowed(code) == code \in {500, 502, 503, 504}

\* make504Response: the synthetic answer to only-if-cached without a match.
make504Response(req) ==
    [PlainResponse(504, NoBody) EXCEPT !.cc = {<<"no-cache", "">>}, !.xs = <<"BYPASS">>,
                                       !.clen = <<0>>, !.conn = <<"close">>]

\* withConditionalHeaders: If-None-Match from the stored ETag and
\* If-Modified-Since from the stored Last-Modified.
withConditionalHeaders(req, data) ==
    [req EXCEPT !.inm = IF data.etag # <<>> THEN data.etag ELSE @,
                !.ims = IF data.lm # <<>> THEN data.lm ELSE @]

\* FixDateHeader: a response without a Date header gets the receipt time.
FixDateHeader(data, receivedAt) ==
    IF data.date = <<>> THEN [data EXCEPT !.date = <<receivedAt>>] ELSE data

\* Response.DateHeader: the instant of the stored Date header.
DateHeader(data, receivedAt) == OrElse(data.date, receivedAt)

----------------------------------------------------------------------------
(* Cache status (CacheStatus, ApplyTo) *)

CacheStatusHit == [Value |-> "HIT", Legacy |-> "1"]
CacheStatusMiss == [Value |-> "MISS", Legacy |-> ""]
CacheStatusStale == [Value |-> "STALE", Legacy |-> "1"]
CacheStatusRevalidated == [Value |-> "REVALIDATED", Legacy |-> "1"]
CacheStatusBypass == [Value |-> "BYPASS", Legacy |-> ""]

\* A variant of ApplyTo that adds the value to those already present.
ApplyToAdding(s, data) ==
    [data EXCEPT !.xs = Append(@, s.Value),
                 !.xcs = IF s.Legacy # "" THEN <<s.Legacy>> ELSE @]

\* CacheStatus.ApplyTo: header.Set replaces every value already present.
ApplyTo(s, data) ==
    [data EXCEPT !.xs = <<s.Value>>,
                 !.xcs = IF s.Legacy # "" THEN <<s.Legacy>> ELSE @]

----------------------------------------------------------------------------
(* Header value normalisation and Vary (HeaderValueNormalizer,             *)
(* VaryHeaderNormalizer, varyMatcher)                                      *)

\* Where x goes in a list already ordered by descending weight: behind
\* every item that weighs at least as much.
RECURSIVE InsertByQ(_, _)
InsertByQ(sorted, x) ==
    IF sorted = <<>> THEN <<x>>
    ELSE IF sorted[Len(sorted)].q >= x.q THEN Append(sorted, x)
    ELSE Append(InsertByQ(SubSeq(sorted, 1, Len(sorted) - 1), x), sorted[Len(sorted)])

RECURSIVE SortByQ(_)
SortByQ(items) ==
    IF items = <<>> THEN <<>>
    ELSE InsertByQ(SortByQ(SubSeq(items, 1, Len(items) - 1)), items[Len(items)])

\* NormalizeHeaderValue for a weighted list such as Accept-Language: items
\* of weight 0 are dropped, the rest ordered by weight, ties by position.
\* The empty value normalises to the empty list.
NormalizeHeaderValue(field, value) ==
    IF field = "Accept-Language"
    THEN SortByQ(SelectSeq(value, LAMBDA i : i.q > 0))
    ELSE value

\* The values of a request header field: <<>> when the field is absent.
ReqHeader(req, field) == IF field = "Accept-Language" THEN req.al ELSE <<>>

\* TrimmedCSVSeq over the Vary values the origin uses.
VaryFields(vary) == IF vary = "" THEN {} ELSE {vary}

\* NormalizeVaryHeader: each field named by Vary with the normalised first
\* value of the request's header, the empty value when it is absent.
NormalizeVaryHeader(vary, req) ==
    {<<f, NormalizeHeaderValue(f, OrElse(ReqHeader(req, f), <<>>))>> : f \in VaryFields(vary)}

\* A variant of varyHeadersMatchOne that compares a "*" like a field name.
varyHeadersMatchOneStarred(ref, req) ==
    \A fv \in ref.varyResolved :
        \/ fv[1] = "*"
        \/ /\ ReqHeader(req, fv[1]) # <<>>
           /\ NormalizeHeaderValue(fv[1], ReqHeader(req, fv[1])[1]) = fv[2]

\* A variant of varyHeadersMatchOne that accepts every reference.
varyHeadersMatchAny(ref, req) == TRUE

varyHeadersMatchOne(ref, req) ==
    /\ ref.vary # "*"
    /\ \A fv \in ref.varyResolved :
          /\ ReqHeader(req, fv[1]) # <<>>
          /\ NormalizeHeaderValue(fv[1], ReqHeader(req, fv[1])[1]) = fv[2]

\* The comparison of VaryHeadersMatch's sort: Vary "*" last, a non-empty
\* Vary before an empty one, then by ReceivedAt.
RefRank(ref) == IF ref.vary = "*" THEN 2 ELSE IF ref.vary # "" THEN 0 ELSE 1

RefLess(a, b) ==
    \/ RefRank(a) < RefRank(b)
    \/ RefRank(a) = RefRank(b) /\ a.receivedAt < b.receivedAt

\* slices.SortFunc on a short slice is an insertion sort: each element
\* moves left past the elements it is less than.
RECURSIVE InsertRef(_, _)
InsertRef(sorted, x) ==
    IF sorted = <<>> THEN <<x>>
    ELSE IF ~RefLess(x, sorted[Len(sorted)]) THEN Append(sorted, x)
    ELSE Append(InsertRef(SubSeq(sorted, 1, Len(sorted) - 1), x), sorted[Len(sorted)])

RECURSIVE SortRefs(_)
SortRefs(refs) ==
    IF refs = <<>> THEN <<>>
    ELSE InsertRef(SortRefs(SubSeq(refs, 1, Len(refs) - 1)), refs[Len(refs)])

\* VaryHeadersMatch on the sorted list: the index of the first match,
\* counted from 0 as the code does, or -1.
VaryHeadersMatch(sorted, req) ==
    IF \E i \in 1..Len(sorted) : varyHeadersMatchOne(sorted[i], req)
    THEN (CHOOSE i \in 1..Len(sorted) :
            /\ varyHeadersMatchOne(sorted[i], req)
            /\ \A j \in 1..(i - 1) : ~varyHeadersMatchOne(sorted[j], req)) - 1
    ELSE -1

----------------------------------------------------------------------------
(* Freshness (FreshnessCalculator, staleIfErrorPolicy, SetAgeHeader) and   *)
(* cacheability (CacheabilityEvaluator)                                    *)

\* The age of a stored entry at instant t (RFC 9111 4.2.3).
CurrentAge(entry, t) ==
    LET date == DateHeader(entry.data, entry.receivedAt)
        apparentAge == Max(0, entry.receivedAt - date)
        responseDelay == entry.receivedAt - entry.requestedAt
        correctedAge == Max(OrElse(entry.data.age, 0), apparentAge) + responseDelay
        residentTime == t - entry.receivedAt
    IN  correctedAge + residentTime

\* The freshness lifetime: the request's max-age, else the response's, else
\* Expires - Date, else a tenth of Date - Last-Modified, else 0.
UsefulLife(entry, ccReq, ccResp) ==
    LET date == DateHeader(entry.data, entry.receivedAt)
    IN  IF ReqMaxAge(ccReq) # <<>> THEN ReqMaxAge(ccReq)[1]
        ELSE IF RespMaxAge(ccResp) # <<>> THEN RespMaxAge(ccResp)[1]
        ELSE IF entry.data.expires # <<>> THEN Max(0, entry.data.expires[1] - date)
        ELSE IF entry.data.lm # <<>> /\ entry.data.lm[1] <= date
             THEN (date - entry.data.lm[1]) \div 10
        ELSE 0

\* Whether a request max-stale accepts a response stale for staleFor.
MaxStaleAccepts(ccReq, staleFor) ==
    /\ HasMaxStale(ccReq)
    /\ \/ MaxStaleRaw(ccReq) = ""
       \/ /\ RawDeltaSecondsValue(MaxStaleRaw(ccReq)) # <<>>
          /\ staleFor <= RawDeltaSecondsValue(MaxStaleRaw(ccReq))[1]

\* CalculateFreshness at instant t.
CalculateFreshness(entry, ccReq, ccResp, t) ==
    LET age == CurrentAge(entry, t)
        life == UsefulLife(entry, ccReq, ccResp)
        minFresh == OrElse(ReqMinFresh(ccReq), 0)
        stale == age + minFresh >= life
    IN  [IsStale |-> stale /\ ~MaxStaleAccepts(ccReq, age - life),
         Age |-> [Value |-> age, Timestamp |-> t],
         UsefulLife |-> life]

\* CanStaleOnError at instant t, for the directives handed to it.
CanStaleOnError(freshness, cc, t) ==
    /\ StaleIfError(cc) # <<>>
    /\ (freshness.Age.Value + (t - freshness.Age.Timestamp)) - freshness.UsefulLife
          <= StaleIfError(cc)[1]

\* A variant of SetAgeHeader that counts only the time since the age was
\* computed.
SetAgeHeaderSince(data, age, t) ==
    [data EXCEPT !.age = <<Max(t - age.Timestamp, 0)>>]

\* SetAgeHeader at instant t.
SetAgeHeader(data, age, t) ==
    [data EXCEPT !.age = <<Max(age.Value + (t - age.Timestamp), 0)>>]

isStatusUnderstood(status) ==
    status \in {200, 203, 300, 301, 304, 308, 404, 405, 410, 414, 501}

isHeuristicallyCacheableCode(status) ==
    status \in {200, 203, 206, 301, 304, 308, 404, 405, 410, 414, 501}

\* CanStoreResponse: an understood final status, no no-store on either
\* side, and explicit freshness unless the status is cacheable by default.
CanStoreResponse(data, ccReq, ccResp) ==
    /\ isStatusUnderstood(data.status)
    /\ ~ReqNoStore(ccReq)
    /\ ~RespNoStore(ccResp)
    /\ \/ isHeuristicallyCacheableCode(data.status)
       \/ RespMaxAge(ccResp) # <<>>
       \/ data.expires # <<>>
       \/ MustUnderstand(ccResp)

----------------------------------------------------------------------------
(* The workloads: who calls, what they ask, and what the origin answers.   *)
(* A behaviour runs one workload, chosen in the initial state.             *)

Procs == {"p1", "p2"}

URLKeys == {"http://h/a", "http://h/b"}

Workloads == {"basic", "vary", "direct", "swr", "sie", "inval", "race", "star",
              "range"}

\* How often the clock may advance: as often as the bound allows where
\* freshness is at stake, three times where a background deadline and the
\* end of the stale-while-revalidate window are to be passed, twice or
\* once where little depends on it, and not at all where only the order
\* of the steps of two callers matters.
TickBudget(w) ==
    IF w = "direct" THEN MaxTicks
    ELSE IF w \in {"swr", "window", "variants"} THEN 3
    ELSE IF w \in {"basic", "sie", "inval", "flaky", "head"} THEN 2
    ELSE IF w = "race" THEN 0
    ELSE 1

\* The callers that issue requests; only "race" has concurrent round trips.
WorkProcs(w) == IF w = "race" THEN Procs ELSE {"p1"}

GetReq(url, cc, al) == [PlainRequest(url) EXCEPT !.cc = cc, !.al = al]

MethodReq(m, url) == [PlainRequest(url) EXCEPT !.method = m]

\* The requests the callers of a workload may issue.
WorkReqs(w) ==
    CASE w = "basic" ->
            {GetReq("http://h/a", {}, <<>>), GetReq("http://h/a", {<<"no-store", "">>}, <<>>)}
      [] w = "vary" ->
            {GetReq("http://h/a", {}, al) : al \in {<<>>, <<EN>>, <<FR>>, <<ENnotFR>>}}
      [] w = "direct" ->
            {GetReq("http://h/a", cc, <<>>) :
                cc \in {{}, {<<"only-if-cached", "">>}, {<<"max-stale", "">>}}}
      [] w = "swr" ->
            {GetReq("http://h/a", {}, <<>>)}
      [] w = "sie" ->
            {GetReq("http://h/a", {}, <<>>),
             GetReq("http://h/a", {<<"stale-if-error", "5">>}, <<>>)}
      [] w = "inval" ->
            {GetReq("http://h/a", {}, <<>>), GetReq("http://h/b", {}, <<>>),
             MethodReq("POST", "http://H/a"), MethodReq("OPTIONS", "http://h/a")}
      [] w = "race" ->
            {GetReq("http://h/a", {}, <<EN>>), GetReq("http://h/a", {}, <<FR>>),
             GetReq("http://h/a", {<<"only-if-cached", "">>}, <<EN>>),
             MethodReq("POST", "http://h/a")}
      [] w = "flaky" ->
            {GetReq("http://h/a", {}, <<>>), MethodReq("POST", "http://h/a")}
      [] w = "star" ->
            {GetReq("http://h/a", {}, <<>>), GetReq("http://h/a", {}, <<EN>>),
             GetReq("http://h/a", {<<"only-if-cached", "">>}, <<>>)}
      [] w = "range" ->
            {GetReq("http://h/a", {}, <<>>),
             [GetReq("http://h/a", {}, <<>>) EXCEPT !.range = TRUE],
             [MethodReq("POST", "http://h/a") EXCEPT !.range = TRUE]}
      [] w = "variants" ->
            {GetReq("http://h/a", {}, <<EN>>), GetReq("http://h/a", {}, <<FR>>),
             MethodReq("POST", "http://h/a")}
      [] w = "window" ->
            {GetReq("http://h/a", cc, <<>>) :
                cc \in {{}, {<<"only-if-cached", "">>}, {<<"min-fresh", "5">>}}}
            \cup {MethodReq("POST", "http://h/a")}
      [] w = "head" ->
            {MethodReq("HEAD", "http://h/a"), GetReq("http://h/a", {}, <<>>),
             GetReq("http://h/a", {<<"no-cache", "">>}, <<>>),
             MethodReq("POST", "http://h/a")}

\* The language the origin answers in: the request's preferred one.
Negotiated(req) ==
    LET prefs == NormalizeHeaderValue("Accept-Language", OrElse(req.al, <<>>))
    IN  IF prefs = <<>> THEN "" ELSE prefs[1].t

\* A 200 of the origin at instant t with the given Cache-Control and Vary;
\* the body tells the resource, the language and the instant it was made.
Ok200(req, t, cc, vary) ==
    [PlainResponse(200, [p |-> PathOf(req.url),
                         l |-> IF vary = "" THEN "" ELSE Negotiated(req),
                         t |-> t])
        EXCEPT !.cc = cc, !.vary = vary, !.etag = <<"v">>]

Answer(data) == [err |-> FALSE, data |-> data]

\* The transport fails: no response at all.
TransportError == [err |-> TRUE, data |-> PlainResponse(0, NoBody)]

IsConditional(req) == req.inm # <<>> \/ req.ims # <<>>

MaxAge60 == {<<"max-age", "60">>}
MaxAge5MustRevalidate == {<<"max-age", "5">>, <<"must-revalidate", "">>}
MaxAge5SWR10 == {<<"max-age", "5">>, <<"stale-while-revalidate", "10">>}
MaxAge60MustUnderstand == {<<"max-age", "60">>, <<"must-understand", "">>}
MaxAge5SIE5 == {<<"max-age", "5">>, <<"stale-if-error", "5">>}
FromOrigin == <<"ORIGIN", "ORIGIN">>
FromOriginLegacy == <<"HIT">>

\* What the upstream transport may answer to a request sent at workload w,
\* the answer being made at instant t.
OriginAnswers(w, req, t) ==
    CASE w = "basic" ->
            {Answer(Ok200(req, t, MaxAge60, "")),
             Answer([Ok200(req, t, {<<"no-store", "">>}, "") EXCEPT !.xs = FromOrigin, !.xcs = FromOriginLegacy]),
             TransportError}
      [] w = "vary" ->
            {Answer(Ok200(req, t, MaxAge60, "Accept-Language"))}
      [] w = "direct" ->
            IF IsConditional(req)
            THEN {Answer([PlainResponse(304, NoBody)
                            EXCEPT !.cc = MaxAge5MustRevalidate, !.etag = <<"v">>]),
                  Answer([PlainResponse(503, NoBody)
                            EXCEPT !.cc = {<<"stale-if-error", "5">>}]),
                  TransportError}
            ELSE {Answer(Ok200(req, t, MaxAge5MustRevalidate, ""))}
      [] w = "swr" ->
            IF IsConditional(req)
            THEN {Answer([PlainResponse(304, NoBody)
                            EXCEPT !.cc = MaxAge5SWR10, !.etag = <<"v">>]),
                  Answer(Ok200(req, t, MaxAge5SWR10, "")),
                  Answer(Ok200(req, t, {<<"no-store", "">>}, ""))}
            ELSE {Answer([Ok200(req, t, MaxAge5SWR10, "") EXCEPT !.xs = FromOrigin, !.xcs = FromOriginLegacy])}
      [] w = "sie" ->
            IF IsConditional(req)
            THEN {Answer(PlainResponse(503, NoBody)), TransportError}
            ELSE {Answer(Ok200(req, t, MaxAge5SIE5, ""))}
      [] w = "inval" ->
            IF req.method = "POST"
            THEN {Answer([PlainResponse(201, NoBody)
                            EXCEPT !.loc = <<"http://h/b">>, !.cloc = <<"http://o/b">>]),
                  Answer([PlainResponse(404, NoBody) EXCEPT !.loc = <<"http://h/b">>]),
                  Answer(PlainResponse(500, NoBody)),
                  TransportError}
            ELSE IF req.method = "OPTIONS"
            THEN {Answer([PlainResponse(204, NoBody) EXCEPT !.xs = FromOrigin, !.xcs = FromOriginLegacy])}
            ELSE {Answer(Ok200(req, t, MaxAge60, ""))}
      [] w = "race" ->
            IF req.method = "POST"
            THEN {Answer(PlainResponse(204, NoBody))}
            ELSE {Answer(Ok200(req, t, MaxAge60, "Accept-Language"))}
      [] w = "star" ->
            {Answer(Ok200(req, t, MaxAge60, vary)) : vary \in {"*", "Accept-Language", ""}}
      [] w = "range" ->
            IF req.method = "POST"
            THEN {Answer(PlainResponse(204, NoBody))}
            ELSE {Answer(Ok200(req, t, MaxAge60, "")),
                  Answer([Ok200(req, t, MaxAge60MustUnderstand, "") EXCEPT !.status = 206])}
      [] w = "window" ->
            IF req.method = "POST"
            THEN {Answer(PlainResponse(204, NoBody))}
            ELSE IF IsConditional(req)
            THEN {Answer(Ok200(req, t, MaxAge5SWR10, ""))}
            ELSE {Answer(Ok200(req, t, cc, "")) :
                    cc \in {MaxAge5SWR10,
                            MaxAge5SWR10 \cup {<<"must-revalidate", "">>},
                            MaxAge5SWR10 \cup {<<"no-cache", "">>}}}
      [] w = "variants" ->
            IF req.method = "POST"
            THEN {Answer(PlainResponse(204, NoBody))}
            ELSE IF IsConditional(req)
            THEN {Answer([PlainResponse(304, NoBody)
                            EXCEPT !.cc = MaxAge5SWR10, !.etag = <<"v">>]),
                  Answer(Ok200(req, t, MaxAge5SWR10, "Accept-Language"))}
            ELSE {Answer(Ok200(req, t, MaxAge5SWR10, "Accept-Language"))}
      [] w = "flaky" ->
            IF req.method = "POST"
            THEN {Answer([PlainResponse(201, NoBody) EXCEPT !.loc = <<"http://h/b">>])}
            ELSE IF IsConditional(req)
            THEN {Answer(Ok200(req, t, MaxAge5SWR10, "")), TransportError}
            ELSE {Answer(Ok200(req, t, MaxAge5SWR10, ""))}
      [] w = "head" ->
            \* The answer to a HEAD has the header fields of the answer to
            \* the GET and no body.
            IF req.method = "POST"
            THEN {Answer(PlainResponse(204, NoBody))}
            ELSE {Answer([Ok200(req, t, MaxAge5SWR10, "")
                            EXCEPT !.body = IF req.method = "HEAD" THEN NoBody ELSE @])}
                 \cup (IF IsConditional(req)
                       THEN {Answer([PlainResponse(304, NoBody)
                                        EXCEPT !.cc = MaxAge5SWR10, !.etag = <<"v">>])}
                       ELSE {})

----------------------------------------------------------------------------
(* The backend (ResponseCache over driver.Conn): one flat key space that   *)
(* holds reference lists under URL keys and entries under response ids.    *)

RefsValue(refs) == [refs |-> refs, entry |-> <<>>]
EntryValue(entry) == [refs |-> <<>>, entry |-> <<entry>>]

\* ResponseCache.GetRefs: the list under the URL key; nothing when the key
\* is missing or does not hold a list.
GetRefs(b, urlKey) ==
    IF RefsKey(urlKey) \in DOMAIN b THEN b[RefsKey(urlKey)].refs ELSE <<>>

\* ResponseCache.Get: <<entry>>, or <<>> when missing or unreadable.
CacheGet(b, id) == IF id \in DOMAIN b THEN b[id].entry ELSE <<>>

CacheSet(b, key, value) == [k \in DOMAIN b \cup {key} |-> IF k = key THEN value ELSE b[k]]

CacheDelete(b, key) == [k \in DOMAIN b \ {key} |-> b[k]]

\* Whether the backend's operations may fail: an operation of a workload
\* either succeeds (TRUE) or returns an error (FALSE).
Outcomes(w) == IF w = "flaky" THEN BOOLEAN ELSE {TRUE}

\* The backend as a read sees it: a failed Get, or bytes that do not
\* deserialize, yield an error and no value, whatever is stored.
Read(b, ok) == IF ok THEN b ELSE [k \in {} |-> RefsValue(<<>>)]

\* The backend after a Set or a Delete: a failed one changes nothing.
Written(b, after, ok) == IF ok THEN after ELSE b

\* refs.ResponseIDs: the ids of a list, in order.
ResponseIDs(refs) == [i \in 1..Len(refs) |-> refs[i].responseID]

----------------------------------------------------------------------------
(* ResponseStorer.StoreResponse: the entry it writes first and the list it *)
(* writes second. No response of an origin carries a hop-by-hop field.       *)

\* The entry of a response; by is history, the request that stored it.
\* A variant of NewEntry whose id leaves the request's headers out.
NewEntryUnvaried(req, data, urlKey, reqTime, respTime) ==
    [data |-> data, requestedAt |-> reqTime, receivedAt |-> respTime,
     id |-> VaryKey(urlKey, {}), by |-> req]

NewEntry(req, data, urlKey, reqTime, respTime) ==
    [data |-> data, requestedAt |-> reqTime, receivedAt |-> respTime,
     id |-> VaryKey(urlKey, NormalizeVaryHeader(data.vary, req)), by |-> req]

NewRef(req, data, urlKey, respTime) ==
    [vary |-> data.vary,
     varyResolved |-> NormalizeVaryHeader(data.vary, req),
     receivedAt |-> DateHeader(data, respTime),
     responseID |-> VaryKey(urlKey, NormalizeVaryHeader(data.vary, req))]

\* A variant of PutRef that appends whatever the index.
PutRefAtEnd(refs, refIndex, ref) == Append(refs, ref)

\* The reference goes to refIndex when that is a valid index (counted from
\* 0), and to the end of the list otherwise.
PutRef(refs, refIndex, ref) ==
    IF refIndex < 0 \/ refIndex >= Len(refs)
    THEN Append(refs, ref)
    ELSE [refs EXCEPT ![refIndex + 1] = ref]

----------------------------------------------------------------------------
(* The state of a round trip and of a background revalidation              *)

NoFreshness == [IsStale |-> FALSE, Age |-> [Value |-> 0, Timestamp |-> 0], UsefulLife |-> 0]

\* pc: where the round trip stands
\*   "idle"     not started
\*   "getentry" RoundTrip is about to load the matched entry
\*   "upstream" the request is with the transport (kind: miss, reval, fwd)
\*   "setrefs"  StoreResponse wrote the entry and is about to write the list
\*   "inval"    InvalidateCache is deleting
\*   "done"     RoundTrip returned (ret, or err)
\*   "panic"    RoundTrip dereferenced the nil response of a failed transport
\* History fields: nup counts the upstream calls, from tells where the
\* returned response came from, began / doneAt are the instants of call
\* and return, retAt is the number of round trips begun by the return, ovl
\* tells that another round trip or a background revalidation was under
\* way at some moment of this one, prev is the round trip that was the
\* last for the URL when this one began, torn tells that some round trip
\* of this caller, now or before, ran while an unsafe-method round trip
\* did, or was one itself while something else ran, rfail / wfail tell that
\* a read / a write or delete of the backend failed in this round trip,
\* late is the number of the unsafe-method round trip for the same URL key,
\* begun after this one, that had returned a non-error response when the
\* upstream response of this one arrived (0 if there was none).
IdleTrip ==
    [pc |-> "idle", id |-> 0, req |-> PlainRequest("http://h/a"),
     sent |-> PlainRequest("http://h/a"), urlKey |-> "http://h/a",
     refs |-> <<>>, refIndex |-> -1, stored |-> <<>>, fresh |-> NoFreshness,
     kind |-> "", start |-> 0, end |-> 0, up |-> <<>>,
     todo |-> <<>>, deleted |-> {}, phase |-> 0,
     ret |-> <<>>, err |-> FALSE,
     nup |-> 0, from |-> "", began |-> 0, doneAt |-> 0, retAt |-> 0,
     ovl |-> FALSE, prev |-> <<>>, torn |-> FALSE,
     rfail |-> FALSE, wfail |-> FALSE, late |-> 0]

\* pc of a background revalidation: "none", "upstream", "setrefs", "done".
\* cancelled: the context of the caller's request, from which the task's
\* context is derived, has been cancelled. History: uperr, the transport
\* returned an error to the task; wfail, a backend write of the task failed.
NoTask ==
    [pc |-> "none", req |-> PlainRequest("http://h/a"), urlKey |-> "http://h/a",
     ccReq |-> {}, stored |-> <<>>, fresh |-> NoFreshness, owner |-> "p1",
     start |-> 0, end |-> 0, deadline |-> 0, up |-> <<>>, outcome |-> "",
     cancelled |-> FALSE, uperr |-> FALSE, wfail |-> FALSE]

TripIds == 1..MaxTrips

InFlight(t) == t.pc \notin {"idle", "done", "panic"}

TaskRunning(b) == b.pc \in {"upstream", "setrefs"}

\* History: the round trip begun last for a URL, and its record once it
\* has returned.
NoLast == [id |-> 0, trip |-> <<>>]

\* The goroutines of a background revalidation that was not spawned: go
\* is where the goroutine that calls upstream stands ("none", "call",
\* "send", "exit"), val is what it is about to send, wait is where the
\* function that spawned it stands ("none", "select", "returned"), errc
\* is the buffer of the result channel, ctxDone tells whether the context
\* of the task is done.
NoGo == [go |-> "none", val |-> "", wait |-> "none", errc |-> <<>>, ctxDone |-> FALSE]

\* The state after construction, for a workload among ws.
Start(ws) ==
    /\ swr = [i \in 1..MaxTasks |-> NoGo]
    /\ now = 0
    /\ backend = [k \in {} |-> RefsValue(<<>>)]
    /\ trips = [p \in Procs |-> IdleTrip]
    /\ bg = [i \in TripIds |-> NoTask]
    /\ ntrips = 0
    /\ last = [k \in URLKeys |-> NoLast]
    /\ work \in ws

\* A keyer given nothing, and an in-memory backend nobody uses.
NoKeyer == [text |-> <<>>, keys |-> <<>>]
NoMem == <<>>

Init == Start(Workloads) /\ keyer = NoKeyer /\ mem = NoMem

----------------------------------------------------------------------------
(* The decision engine (roundtripper.go). at is the instant of the step,   *)
(* n the number of round trips begun so far.                               *)

Returned(t, data, from, at, n) ==
    [t EXCEPT !.pc = "done", !.ret = <<data>>, !.from = from, !.doneAt = at, !.retAt = n]

Failed(t, at, n) ==
    [t EXCEPT !.pc = "done", !.err = TRUE, !.doneAt = at, !.retAt = n]

\* roundTripTimed, the sending half: the request goes to the transport.
SentUpstream(t, kind, sent, at) ==
    [t EXCEPT !.pc = "upstream", !.kind = kind, !.sent = sent, !.start = at, !.nup = @ + 1]

\* A variant of handleCacheMiss that goes upstream whatever the request
\* says.
handleCacheMissForwarding(t, refs, refIndex, at, n) ==
    SentUpstream([t EXCEPT !.refs = refs, !.refIndex = refIndex], "miss", t.req, at)

handleCacheMiss(t, refs, refIndex, at, n) ==
    IF OnlyIfCached(ParseCCRequestDirectives(t.req))
    THEN Returned(t, make504Response(t.req), "synth", at, n)
    ELSE SentUpstream([t EXCEPT !.refs = refs, !.refIndex = refIndex], "miss", t.req, at)

\* The guard of the store on the miss path.
MissStoresAlways(data, ccReq, ccResp) == TRUE

\* A miss path that stores nothing.
MissStoresNever(data, ccReq, ccResp) == FALSE

MissStores(data, ccReq, ccResp) == CanStoreResponse(data, ccReq, ccResp)

\* A window that includes its far end.
InSWRWindowClosed(freshness, ccResp, at) ==
    /\ freshness.IsStale
    /\ StaleWhileRevalidate(ccResp) # <<>>
    /\ LET age == freshness.Age.Value + (at - freshness.Age.Timestamp)
           staleFor == age - freshness.UsefulLife
       IN  staleFor >= 0 /\ staleFor <= StaleWhileRevalidate(ccResp)[1]

\* The stale-while-revalidate window of handleCacheHit.
InSWRWindow(freshness, ccResp, at) ==
    /\ freshness.IsStale
    /\ StaleWhileRevalidate(ccResp) # <<>>
    /\ LET age == freshness.Age.Value + (at - freshness.Age.Timestamp)
           staleFor == age - freshness.UsefulLife
       IN  staleFor >= 0 /\ staleFor < StaleWhileRevalidate(ccResp)[1]

\* The order of handleCacheHit's tests: what becomes of a stored response.
HitDecision(freshness, ccReq, ccResp, at) ==
    IF ~freshness.IsStale /\ Immutable(ccResp) /\ ~ReqNoCache(ccReq) THEN "serve"
    ELSE IF freshness.IsStale /\ MustRevalidate(ccResp) THEN "revalidate"
    ELSE IF HasRespNoCache(ccResp) /\ ~IsRespNoCacheQualified(ccResp) THEN "revalidate"
    ELSE IF OnlyIfCached(ccReq) \/ (~freshness.IsStale /\ ~ReqNoCache(ccReq)) THEN "serve"
    ELSE IF InSWRWindow(freshness, ccResp, at) THEN "swr"
    ELSE "revalidate"

\* No response of the workloads carries a qualified no-cache, so there is
\* no field for serveFromCache to strip.
serveFromCache(t, stored, freshness, at, n) ==
    Returned(t, ApplyTo(CacheStatusHit, SetAgeHeader(stored.data, freshness.Age, at)),
             "stored", at, n)

\* A variant of handleStaleWhileRevalidate that revalidates before it
\* answers.
handleStaleWhileRevalidateWaiting(t, stored, at, n) ==
    SentUpstream(t, "reval", withConditionalHeaders(t.req, stored.data), at)

\* The foreground half; the action that takes this step starts the task.
handleStaleWhileRevalidate(t, stored, at, n) ==
    [Returned(t, ApplyTo(CacheStatusStale, stored.data), "stored", at, n)
        EXCEPT !.kind = "swr"]

handleCacheHit(t, stored, at, n) ==
    LET ccReq == ParseCCRequestDirectives(t.req)
        ccResp == ParseCCResponseDirectives(stored.data)
        freshness == CalculateFreshness(stored, ccReq, ccResp, at)
        t1 == [t EXCEPT !.stored = <<stored>>, !.fresh = freshness]
        decision == HitDecision(freshness, ccReq, ccResp, at)
    IN  IF decision = "serve" THEN serveFromCache(t1, stored, freshness, at, n)
        ELSE IF decision = "swr" THEN handleStaleWhileRevalidate(t1, stored, at, n)
        ELSE SentUpstream(t1, "reval", withConditionalHeaders(t.req, stored.data), at)

\* A variant of updateStoredHeaders that hands on the validation response.
updateStoredHeadersReplacing(storedData, data) == data

\* updateStoredHeaders: every header field of the validation response
\* replaces the stored one; the status line and the body stay.
updateStoredHeaders(storedData, data) ==
    [storedData EXCEPT
        !.cc = IF data.cc # {} THEN data.cc ELSE @,
        !.vary = IF data.vary # "" THEN data.vary ELSE @,
        !.etag = IF data.etag # <<>> THEN data.etag ELSE @,
        !.date = IF data.date # <<>> THEN data.date ELSE @,
        !.age = IF data.age # <<>> THEN data.age ELSE @,
        !.expires = IF data.expires # <<>> THEN data.expires ELSE @,
        !.lm = IF data.lm # <<>> THEN data.lm ELSE @,
        !.loc = IF data.loc # <<>> THEN data.loc ELSE @,
        !.cloc = IF data.cloc # <<>> THEN data.cloc ELSE @,
        !.xs = IF data.xs # <<>> THEN data.xs ELSE @,
        !.xcs = IF data.xcs # <<>> THEN data.xcs ELSE @]

\* HandleValidationResponse: which case of its switch applies.
ValidationCase(method, freshness, ccReq, ans, at) ==
    IF ~ans.err /\ method = "GET" /\ ans.data.status = 304 THEN "revalidated"
    ELSE IF (ans.err \/ isStaleErrorAllowed(ans.data.status)) /\ method = "GET"
         THEN IF ans.err THEN "panic"
              ELSE IF CanStaleOnError(freshness, ParseCCResponseDirectives(ans.data), at)
                   THEN "stale"
                   ELSE IF CanStoreResponse(ans.data, ccReq, ParseCCResponseDirectives(ans.data))
                        THEN "store" ELSE "bypass"
    ELSE IF ans.err THEN "error"
    ELSE IF CanStoreResponse(ans.data, ccReq, ParseCCResponseDirectives(ans.data))
         THEN "store" ELSE "bypass"


\* History: a round trip that has returned is remembered under its URL
\* key while it is still the last one begun for it: its request, the
\* instant it went upstream, the answer it got there and what it returned.
Remember(l, t) ==
    IF t.pc \in {"done", "panic"} /\ l[t.urlKey].id = t.id
    THEN [l EXCEPT ![t.urlKey].trip =
            <<[id |-> t.id, req |-> t.req, start |-> t.start, end |-> t.end,
               nup |-> t.nup, up |-> t.up, ret |-> t.ret]>>]
    ELSE l

\* RoundTrip up to its first wait: the URL key, the method test, GetRefs,
\* the sort and the match.
Begin(p, req) ==
    /\ p \in WorkProcs(work)
    /\ req \in WorkReqs(work)
    /\ trips[p].pc \in {"idle", "done"}
    /\ ntrips < MaxTrips
    /\ \E ok \in Outcomes(work) :
       LET n == ntrips + 1
           urlKey == makeURLKey(req.url)
           busy == \/ \E q \in Procs \ {p} : InFlight(trips[q])
                   \/ \E i \in TripIds : TaskRunning(bg[i])
           t0 == [IdleTrip EXCEPT !.id = n, !.req = req, !.sent = req,
                                  !.urlKey = urlKey, !.began = now, !.ovl = busy,
                                  !.prev = last[urlKey].trip,
                                  !.torn = \/ trips[p].torn
                                           \/ busy /\ isUnsafeMethod(req)
                                           \/ \E q \in Procs \ {p} :
                                                 /\ InFlight(trips[q])
                                                 /\ isUnsafeMethod(trips[q].req)]
           refs == GetRefs(Read(backend, ok), urlKey)
           sorted == SortRefs(refs)
           refIndex == VaryHeadersMatch(sorted, req)
           t00 == [t0 EXCEPT !.rfail = ~ok]
           t1 == IF ~isRequestMethodUnderstood(req) THEN SentUpstream(t0, "fwd", req, now)
                 ELSE IF refs = <<>> THEN handleCacheMiss(t00, <<>>, -1, now, n)
                 ELSE IF refIndex = -1 THEN handleCacheMiss(t00, sorted, -1, now, n)
                 ELSE [t00 EXCEPT !.pc = "getentry", !.refs = sorted, !.refIndex = refIndex]
       IN  /\ trips' = [q \in Procs |->
                          IF q = p THEN t1
                          ELSE IF InFlight(trips[q])
                          THEN [trips[q] EXCEPT
                                  !.ovl = TRUE,
                                  !.torn = \/ @
                                           \/ isUnsafeMethod(req)
                                           \/ isUnsafeMethod(trips[q].req)]
                          ELSE trips[q]]
           /\ ntrips' = n
           /\ last' = Remember([last EXCEPT ![urlKey] = [id |-> n, trip |-> <<>>]], t1)
    /\ UNCHANGED <<now, backend, bg, work, keyer, mem, swr>>

\* performBackgroundRevalidation is started: the conditional request goes
\* to the transport under a deadline of DefaultSWRTimeout.
DefaultSWRTimeout == 5

NewTask(p, t, at) ==
    [NoTask EXCEPT !.pc = "upstream",
                   !.req = withConditionalHeaders(t.req, t.stored[1].data),
                   !.urlKey = t.urlKey, !.ccReq = ParseCCRequestDirectives(t.req),
                   !.stored = t.stored, !.fresh = t.fresh, !.owner = p,
                   !.start = at, !.deadline = at + DefaultSWRTimeout]

\* RoundTrip loads the matched entry, then handleCacheHit, or
\* handleCacheMiss when the entry is gone.
GetEntry(p) ==
    /\ trips[p].pc = "getentry"
    /\ \E ok \in Outcomes(work) :
       LET t == [trips[p] EXCEPT !.rfail = @ \/ ~ok]
           entry == CacheGet(Read(backend, ok), t.refs[t.refIndex + 1].responseID)
           t1 == IF entry = <<>> THEN handleCacheMiss(t, t.refs, t.refIndex, now, ntrips)
                 ELSE handleCacheHit(t, entry[1], now, ntrips)
           spawned == t1.pc = "done" /\ t1.kind = "swr"
       IN  /\ trips' = [q \in Procs |->
                          IF q = p THEN t1
                          ELSE IF spawned /\ InFlight(trips[q])
                               THEN [trips[q] EXCEPT !.ovl = TRUE]
                          ELSE trips[q]]
           /\ bg' = IF spawned THEN [bg EXCEPT ![t.id] = NewTask(p, t1, now)] ELSE bg
           /\ last' = Remember(last, t1)
    /\ UNCHANGED <<now, backend, ntrips, work, keyer, mem, swr>>

\* A variant of LocationURLs that reads Content-Location only.
LocationURLsContentOnly(t) ==
    SelectSeq(t.up[1].cloc, LAMBDA u : sameOrigin(t.req.url, u))

\* InvalidateCache deletes keys one at a time. phase 0 deletes the ids of
\* the primary list; phase i, for the i-th same-origin URL of Location and
\* Content-Location, loads that URL's list and deletes its ids and its
\* key; the last phase deletes the primary key.
LocationURLs(t) ==
    SelectSeq(t.up[1].loc \o t.up[1].cloc, LAMBDA u : sameOrigin(t.req.url, u))

LastPhase(t) == Len(LocationURLs(t)) + 1

\* handleUnrecognizedMethod after the transport answered.
Forwarded(t, ans, b, at, n) ==
    IF ans.err THEN Failed(t, at, n)
    ELSE IF isUnsafeMethod(t.req) /\ isNonErrorStatus(ans.data.status)
         THEN [t EXCEPT !.pc = "inval", !.up = <<ans.data>>, !.end = at, !.phase = 0,
                        !.todo = ResponseIDs(GetRefs(b, t.urlKey))]
    ELSE Returned([t EXCEPT !.up = <<ans.data>>, !.end = at],
                  ApplyTo(CacheStatusBypass, ans.data), "upstream", at, n)

\* handleCacheMiss after the transport answered; a storable response is on
\* its way into the backend, its entry written.
Missed(t, ans, at, n) ==
    IF ans.err THEN Failed(t, at, n)
    ELSE IF MissStores(ans.data, ParseCCRequestDirectives(t.req),
                       ParseCCResponseDirectives(ans.data))
         THEN [t EXCEPT !.pc = "setrefs", !.up = <<ans.data>>, !.end = at]
    ELSE Returned([t EXCEPT !.up = <<ans.data>>, !.end = at],
                  ApplyTo(CacheStatusMiss, ans.data), "upstream", at, n)

\* HandleValidationResponse after the transport answered the conditional
\* request. A failed transport hands over no response, and reading its
\* header for the stale-if-error test panics.
Validated(t, ans, at, n) ==
    LET which == ValidationCase(t.sent.method, t.fresh,
                                ParseCCRequestDirectives(t.req), ans, at)
        t1 == [t EXCEPT !.up = IF ans.err THEN <<>> ELSE <<ans.data>>, !.end = at]
        storedData == t.stored[1].data
    IN  CASE which = "revalidated" ->
                Returned(t1, ApplyTo(CacheStatusRevalidated,
                                     updateStoredHeaders(storedData, ans.data)),
                         "stored", at, n)
          [] which = "stale" ->
                Returned(t1, ApplyTo(CacheStatusStale,
                                     SetAgeHeader(storedData, t.fresh.Age, at)),
                         "stored", at, n)
          [] which = "panic" -> [t1 EXCEPT !.pc = "panic", !.doneAt = at, !.retAt = n]
          [] which = "error" -> Failed(t1, at, n)
          [] which = "store" -> [t1 EXCEPT !.pc = "setrefs"]
          [] which = "bypass" ->
                Returned(t1, ApplyTo(CacheStatusBypass, ans.data), "upstream", at, n)

\* The request StoreResponse resolves Vary against: the caller's on the
\* miss path, the conditional one on the revalidation path.
StoringReq(t) == IF t.kind = "miss" THEN t.req ELSE t.sent

\* roundTripTimed, the receiving half, and what the caller of roundTripTimed
\* does up to its next wait. A response to store has its entry written.
UpResp(p, ans) ==
    /\ trips[p].pc = "upstream"
    /\ ans \in OriginAnswers(work, trips[p].sent, now)
    /\ \E ok \in Outcomes(work) :
       LET t == trips[p]
           fixed == [ans EXCEPT !.data = IF ans.err THEN @ ELSE FixDateHeader(@, now)]
           t0 == CASE t.kind = "fwd" -> Forwarded(t, fixed, Read(backend, ok), now, ntrips)
                   [] t.kind = "miss" -> Missed(t, fixed, now, ntrips)
                   [] t.kind = "reval" -> Validated(t, fixed, now, ntrips)
           t1 == [t0 EXCEPT !.rfail = @ \/ (t0.pc = "inval" /\ ~ok),
                            !.wfail = @ \/ (t0.pc = "setrefs" /\ ~ok),
                            !.late =
                                LET ids == {0} \cup {trips[q].id : q \in
                                        {r \in Procs \ {p} :
                                            /\ trips[r].pc = "done" /\ ~trips[r].err
                                            /\ trips[r].id > t.id
                                            /\ trips[r].urlKey = t.urlKey
                                            /\ isUnsafeMethod(trips[r].req)
                                            /\ isNonErrorStatus(trips[r].ret[1].status)}}
                                IN  CHOOSE i \in ids : \A j \in ids : i >= j]
           entry == NewEntry(StoringReq(t1), t1.up[1], t1.urlKey, t1.start, t1.end)
       IN  /\ trips' = [trips EXCEPT ![p] = t1]
           /\ backend' = IF t1.pc = "setrefs"
                         THEN Written(backend, CacheSet(backend, entry.id, EntryValue(entry)), ok)
                         ELSE backend
           /\ last' = Remember(last, t1)
    /\ UNCHANGED <<now, bg, ntrips, work, keyer, mem, swr>>

\* A variant of AfterStore that returns the error of a failed store.
AfterStoreFailing(t, ok, at, n) ==
    IF ok THEN Returned(t, ApplyTo(CacheStatusMiss, t.up[1]), "upstream", at, n)
    ELSE Failed([t EXCEPT !.wfail = TRUE], at, n)

\* What the caller of StoreResponse does with its result: the error is
\* dropped and the response of the origin is returned, tagged MISS.
AfterStore(t, ok, at, n) ==
    Returned([t EXCEPT !.wfail = @ \/ ~ok],
             ApplyTo(CacheStatusMiss, t.up[1]), "upstream", at, n)

\* StoreResponse writes the reference list; the response is returned.
SetRefs(p) ==
    /\ trips[p].pc = "setrefs"
    /\ \E ok \in Outcomes(work) :
       LET t == trips[p]
           ref == NewRef(StoringReq(t), t.up[1], t.urlKey, t.end)
           t1 == AfterStore(t, ok, now, ntrips)
       IN  /\ backend' = Written(backend,
                                 CacheSet(backend, RefsKey(t.urlKey),
                                          RefsValue(PutRef(t.refs, t.refIndex, ref))),
                                 ok)
           /\ trips' = [trips EXCEPT ![p] = t1]
           /\ last' = Remember(last, t1)
    /\ UNCHANGED <<now, bg, ntrips, work, keyer, mem, swr>>

\* One step of InvalidateCache: the next delete, or the next list to load.
\* handleUnrecognizedMethod returns after the last delete.
InvStep(p) ==
    /\ trips[p].pc = "inval"
    /\ \E ok \in Outcomes(work) :
       LET t == trips[p]
           key == Head(t.todo)
           locKey == makeURLKey(LocationURLs(t)[t.phase + 1])
           t1 == IF t.todo # <<>>
                 THEN [t EXCEPT !.todo = Tail(@), !.deleted = @ \cup {key},
                                !.wfail = @ \/ (key \notin t.deleted /\ ~ok)]
                 ELSE IF t.phase + 1 < LastPhase(t)
                      THEN [t EXCEPT !.phase = @ + 1, !.rfail = @ \/ ~ok,
                                     !.todo = Append(ResponseIDs(GetRefs(Read(backend, ok),
                                                                         locKey)),
                                                     RefsKey(locKey))]
                 ELSE [t EXCEPT !.phase = @ + 1, !.todo = <<RefsKey(t.urlKey)>>]
           t2 == IF t1.todo = <<>> /\ t1.phase = LastPhase(t)
                 THEN Returned(t1, ApplyTo(CacheStatusBypass, t.up[1]), "upstream", now, ntrips)
                 ELSE t1
       IN  /\ backend' = IF t.todo # <<>> /\ key \notin t.deleted
                         THEN Written(backend, CacheDelete(backend, key), ok)
                         ELSE backend
           /\ trips' = [trips EXCEPT ![p] = t2]
           /\ last' = Remember(last, t2)
    /\ UNCHANGED <<now, bg, ntrips, work, keyer, mem, swr>>

----------------------------------------------------------------------------
(* The background revalidation (performBackgroundRevalidation)             *)

\* The response the owner of task i was handed is the stored response the
\* task holds, as long as the owner still has it.
HandedOut(i) == trips[bg[i].owner].id = i /\ trips[bg[i].owner].pc = "done"

\* The caller cancels the context of its request after the round trip
\* has returned. The task's request is a clone under that context and its
\* deadline context is derived from it, so both are done from here on.
CancelCaller(i) ==
    /\ bg[i].pc = "upstream" /\ ~bg[i].cancelled
    /\ bg' = [bg EXCEPT ![i].cancelled = TRUE]
    /\ UNCHANGED <<now, backend, trips, ntrips, last, work, keyer, mem, swr>>

\* A variant of the task's context without a deadline of its own.
ContextDoneNoDeadline(b, at) == b.cancelled

\* The context of the background request is done: its deadline has passed
\* or its parent, the caller's context, was cancelled.
ContextDone(b, at) == b.cancelled \/ at >= b.deadline

\* A variant of BgOutcome that serves stale when the transport fails.
BgOutcomeStaleOnError(b, ans, at) ==
    IF ContextDone(b, at)
    THEN (IF at >= b.deadline THEN "timeout" ELSE "cancelled")
    ELSE IF ans.err THEN "stale"
    ELSE ValidationCase(b.req.method, b.fresh, b.ccReq, ans, at)

\* What becomes of the answer to the background request: dropped with the
\* context done, logged when the transport failed, else handed to
\* HandleValidationResponse with a nil error.
BgOutcome(b, ans, at) ==
    IF ContextDone(b, at)
    THEN (IF at >= b.deadline THEN "timeout" ELSE "cancelled")
    ELSE IF ans.err THEN "error"
    ELSE ValidationCase(b.req.method, b.fresh, b.ccReq, ans, at)

\* The transport answers the background request. With its context done
\* the task gives up (the call fails or its answer is dropped); before it, the answer goes to HandleValidationResponse
\* with no reference list and the index 0. A 304 and a stale-if-error
\* answer change the stored response in place, which the caller holds.
BgResp(i, ans) ==
    /\ bg[i].pc = "upstream"
    /\ ans \in OriginAnswers(work, bg[i].req, now)
    /\ \E ok \in Outcomes(work) :
       LET b == bg[i]
           fixed == [ans EXCEPT !.data = IF ans.err THEN @ ELSE FixDateHeader(@, now)]
           which == BgOutcome(b, fixed, now)
           storedData == b.stored[1].data
           changed == CASE which = "revalidated" ->
                              ApplyTo(CacheStatusRevalidated,
                                      updateStoredHeaders(storedData, fixed.data))
                        [] which = "stale" ->
                              ApplyTo(CacheStatusStale,
                                      SetAgeHeader(storedData, b.fresh.Age, now))
                        [] OTHER -> storedData
           entry == NewEntry(b.req, fixed.data, b.urlKey, b.start, now)
       IN  /\ bg' = [bg EXCEPT ![i] =
                        IF which = "store"
                        THEN [b EXCEPT !.pc = "setrefs", !.up = <<fixed.data>>, !.end = now,
                                       !.wfail = ~ok]
                        ELSE [NoTask EXCEPT !.pc = "done", !.outcome = which,
                                            !.uperr = ans.err]]
           /\ backend' = IF which = "store"
                         THEN Written(backend, CacheSet(backend, entry.id, EntryValue(entry)), ok)
                         ELSE backend
           /\ trips' = IF which \in {"revalidated", "stale"} /\ HandedOut(i)
                       THEN [trips EXCEPT ![b.owner].ret = <<changed>>]
                       ELSE trips
    /\ UNCHANGED <<now, ntrips, last, work, keyer, mem, swr>>

\* StoreResponse of the background task writes its reference list: the
\* task has no list, so the new reference is the only one.
BgSetRefs(i) ==
    /\ bg[i].pc = "setrefs"
    /\ \E ok \in Outcomes(work) :
       LET b == bg[i]
           ref == NewRef(b.req, b.up[1], b.urlKey, b.end)
       IN  /\ backend' = Written(backend,
                                 CacheSet(backend, RefsKey(b.urlKey),
                                          RefsValue(PutRef(<<>>, 0, ref))),
                                 ok)
           /\ bg' = [bg EXCEPT ![i] = [NoTask EXCEPT !.pc = "done", !.outcome = "stored",
                                                     !.wfail = b.wfail \/ ~ok]]
    /\ UNCHANGED <<now, trips, ntrips, last, work, keyer, mem, swr>>

----------------------------------------------------------------------------
\* The clock advances.
Tick ==
    /\ now < Quantum * TickBudget(work)
    /\ now' = now + Quantum
    /\ UNCHANGED <<backend, trips, bg, ntrips, last, work, keyer, mem, swr>>


Next ==
    \/ Tick
    \/ \E p \in Procs : \E req \in WorkReqs(work) : Begin(p, req)
    \/ \E p \in Procs : GetEntry(p)
    \/ \E p \in Procs : \E ans \in OriginAnswers(work, trips[p].sent, now) : UpResp(p, ans)
    \/ \E p \in Procs : SetRefs(p)
    \/ \E p \in Procs : InvStep(p)
    \/ \E i \in TripIds : CancelCaller(i)
    \/ \E i \in TripIds : \E ans \in OriginAnswers(work, bg[i].req, now) : BgResp(i, ans)
    \/ \E i \in TripIds : BgSetRefs(i)

Spec == Init /\ [][Next]_vars

\* The same program over a backend whose operations may fail.
SpecFlaky ==
    /\ Start({"flaky"}) /\ keyer = NoKeyer /\ mem = NoMem
    /\ [][Next]_vars

\* The same program serving language variants of one URL that may be
\* revalidated in the background.
SpecVariants ==
    /\ Start({"variants"}) /\ keyer = NoKeyer /\ mem = NoMem
    /\ [][Next]_vars

\* The same program asked for one URL with HEAD as well as with GET, and
\* with a GET that carries no-cache.
SpecHead ==
    /\ Start({"head"}) /\ keyer = NoKeyer /\ mem = NoMem
    /\ [][Next]_vars

\* The same program serving responses that carry stale-while-revalidate
\* beside other directives, to requests with directives of their own.
SpecWindow ==
    /\ Start({"window"}) /\ keyer = NoKeyer /\ mem = NoMem
    /\ [][Next]_vars

----------------------------------------------------------------------------
(* The URL keyer alone *)

\* Nothing of the cache moves.
AtRest == UNCHANGED <<now, backend, trips, bg, ntrips, last, work>>

\* URLKeyerFunc.URLKey on the URL a request carries.
KeyURL ==
    /\ keyer.keys = <<>>
    /\ keyer' = [keyer EXCEPT !.keys = <<URLKey(ParseURL(keyer.text))>>]
    /\ AtRest /\ UNCHANGED <<mem, swr>>

\* The key taken for a URL in turn: parsed, and keyed again.
KeyAgain ==
    /\ Len(keyer.keys) = 1
    /\ keyer' = [keyer EXCEPT
                     !.keys = Append(@, URLKey(ParseURL(keyer.keys[1])))]
    /\ AtRest /\ UNCHANGED <<mem, swr>>

NextKeyer == KeyURL \/ KeyAgain

SpecKeyer ==
    /\ Start({"basic"})
    /\ keyer \in {[text |-> t, keys |-> <<>>] : t \in URLTexts}
    /\ mem = NoMem
    /\ [][NextKeyer]_vars

----------------------------------------------------------------------------
(* Properties *)

CacheStatusValues == {"HIT", "MISS", "STALE", "REVALIDATED", "BYPASS"}

\* The round trip of p has returned a response.
Answered(p) == trips[p].pc = "done" /\ ~trips[p].err

\* C1: every response RoundTrip returns with a nil error carries exactly
\* one X-Httpcache-Status value, and that value is one of HIT, MISS, STALE,
\* REVALIDATED, BYPASS, whichever path produced the response.
C1_OneStatusValue ==
    \A p \in Procs :
        Answered(p) => \E v \in CacheStatusValues : trips[p].ret[1].xs = <<v>>

\* C1 at work: a stored response that came from the origin with two
\* foreign X-Httpcache-Status values is served stale with the single
\* value STALE.
C1_Witness ==
    \E p \in Procs :
        /\ Answered(p)
        /\ trips[p].from = "stored"
        /\ trips[p].stored[1].data.xs = FromOrigin
        /\ trips[p].ret[1].xs = <<"STALE">>


\* The round trip of p answered a GET that repeats, 10 seconds on and
\* without delay of its own, the round trip before it for the same URL,
\* which missed and got from upstream a 200 with max-age=60, no Vary, no
\* Age and no Date of its own.
RepeatsAMiss(p) ==
    /\ Answered(p)
    /\ trips[p].prev # <<>>
    /\ LET first == trips[p].prev[1]
       IN  /\ trips[p].req = first.req
           /\ first.req.method = "GET" /\ first.req.cc = {} /\ ~first.req.range
           /\ first.up # <<>> /\ first.ret # <<>>
           /\ first.ret[1].xs = <<"MISS">>
           /\ first.up[1].status = 200
           /\ first.up[1].cc = MaxAge60
           /\ first.up[1].vary = ""
           /\ first.up[1].age = <<>>
           /\ first.up[1].date = <<first.end>>
           /\ trips[p].began = first.start + 10
           /\ trips[p].doneAt = trips[p].began

\* The second GET is a HIT with the stored body and Age: 10, and upstream
\* is not called.
HitAtTen(p) ==
    /\ trips[p].ret[1].xs = <<"HIT">>
    /\ trips[p].ret[1].age = <<10>>
    /\ trips[p].ret[1].body = trips[p].prev[1].ret[1].body
    /\ trips[p].ret[1].status = 200
    /\ trips[p].nup = 0

\* C2 as stated: a GET misses and upstream answers 200 with max-age=60 and
\* no Vary; an identical GET 10 seconds later, with no other request for
\* that URL in between, is a HIT with the stored body and Age: 10, without
\* an upstream call.
C2_AsStated == \A p \in Procs : RepeatsAMiss(p) => HitAtTen(p)

\* C2, amended: the same, when no other round trip at all came between
\* the two (an unsafe request for another URL whose response names this
\* URL in Location or Content-Location removes the stored response).
C2_HitAfterMiss ==
    \A p \in Procs :
        RepeatsAMiss(p) /\ trips[p].prev[1].id = trips[p].id - 1 => HitAtTen(p)

\* C2 at work: the second of two GETs in a row, served with Age: 10.
C2_Witness ==
    \E p \in Procs :
        /\ RepeatsAMiss(p)
        /\ trips[p].prev[1].id = trips[p].id - 1
        /\ HitAtTen(p)


\* The round trip of p answered a plain GET that names its language, for a
\* resource whose stored variants all declare Vary: Accept-Language, and
\* nothing else was under way while it ran.
NegotiatedGet(p) ==
    /\ Answered(p)
    /\ trips[p].req.method = "GET" /\ trips[p].req.cc = {} /\ ~trips[p].req.range
    /\ trips[p].req.al # <<>>
    /\ ~trips[p].ovl
    /\ \A i \in 1..Len(trips[p].refs) : trips[p].refs[i].vary = "Accept-Language"
    /\ trips[p].up # <<>> => trips[p].up[1].vary = "Accept-Language"

\* The resolved Vary map of p's request.
Wanted(p) == NormalizeVaryHeader("Accept-Language", trips[p].req)

\* A variant for the language of p's request was stored when p looked: a
\* reference of that resolved value, and the entry it leads to.
VariantStored(p) ==
    /\ \E i \in 1..Len(trips[p].refs) : trips[p].refs[i].varyResolved = Wanted(p)
    /\ trips[p].stored # <<>>

\* Nothing has touched the backend since p returned.
JustReturned(p) ==
    /\ ntrips = trips[p].retAt
    /\ \A q \in Procs \ {p} : ~InFlight(trips[q])
    /\ \A i \in TripIds : ~TaskRunning(bg[i])

RefsResolve ==
    \A k \in DOMAIN backend :
        \A i \in 1..Len(backend[k].refs) :
            LET r == backend[k].refs[i]
            IN  /\ CacheGet(backend, r.responseID) # <<>>
                /\ CacheGet(backend, r.responseID)[1].id = r.responseID

\* C4 as stated: in every reachable state, concurrent round trips,
\* invalidations and background revalidations included, each reference of
\* a stored list has an entry stored under its response_id, with that id.
C4_AsStated == RefsResolve

\* No invalidation is deleting, and no unsafe-method round trip ever ran
\* at the same time as another round trip or a background revalidation.
NoDeleteUnderWay ==
    \A p \in Procs : trips[p].pc # "inval" /\ ~trips[p].torn

\* C4: while no invalidation is in progress, and as long as no
\* unsafe-method round trip has overlapped another round trip or a
\* background revalidation, each reference of a stored list has an entry
\* stored under its response_id, with that id.
C4_RefsResolveWhenUntorn == NoDeleteUnderWay => RefsResolve

\* Two variants are stored under one URL key, the last by a round trip
\* that missed and went upstream.
C4_Witness ==
    /\ NoDeleteUnderWay
    /\ \E k \in DOMAIN backend : Len(backend[k].refs) >= 2
    /\ \E p \in Procs : trips[p].pc = "done" /\ trips[p].kind = "miss"
                        /\ trips[p].from = "upstream"


\* C5: the reference list of a URL key never holds two references with
\* equal vary_resolved maps (a store whose vary_resolved equals that of an
\* existing reference overwrites it at its index instead of appending).
C5_OneRefPerVaryResolved ==
    \A k \in DOMAIN backend :
        \A i, j \in 1..Len(backend[k].refs) :
            backend[k].refs[i].varyResolved = backend[k].refs[j].varyResolved
                => i = j


\* The round trip of p was an unsafe-method request answered 2xx or 3xx,
\* it has returned, no round trip began since and nothing is in flight.
UnsafeReturned(p) ==
    /\ Answered(p)
    /\ isUnsafeMethod(trips[p].req)
    /\ isNonErrorStatus(trips[p].ret[1].status)
    /\ JustReturned(p)

\* The URL keys the answer to p's request invalidates: that of the request
\* and those of the same-origin URLs its Location and Content-Location name.
InvalidatedKeys(p) ==
    {trips[p].urlKey} \cup
    {makeURLKey(u) : u \in {v \in ReqURLs \cup {"http://o/b"} :
        /\ sameOrigin(trips[p].req.url, v)
        /\ \/ trips[p].ret[1].loc = <<v>>
           \/ trips[p].ret[1].cloc = <<v>>}}

\* The backend holds neither a reference list for a key p's request
\* invalidated nor an entry the invalidation found referenced.
NothingLeft(p) ==
    /\ \A k \in InvalidatedKeys(p) : RefsKey(k) \notin DOMAIN backend
    /\ trips[p].deleted \cap DOMAIN backend = {}

\* C6 as stated: after an unsafe-method request for U returned 2xx or 3xx,
\* with no other request in flight, the backend holds no reference list and
\* no referenced entry for the key of U nor for the key of a same-origin
\* URL named in Location or Content-Location.
C6_AsStated == \A p \in Procs : UnsafeReturned(p) => NothingLeft(p)

\* C6: the same, for an unsafe-method request during which no other round
\* trip and no background revalidation was under way.
C6_InvalidationComplete ==
    \A p \in Procs : UnsafeReturned(p) /\ ~trips[p].ovl => NothingLeft(p)

\* An invalidation that deleted an entry of a URL named in Location.
C6_Witness ==
    \E p \in Procs :
        /\ UnsafeReturned(p) /\ ~trips[p].ovl
        /\ \E k \in trips[p].deleted : k.u # trips[p].urlKey /\ k.v # <<>>
        /\ \E k \in trips[p].deleted : k.u = trips[p].urlKey /\ k.v # <<>>


\* The request of p's round trip carries the directive.
AsksOnlyIfCached(p) == OnlyIfCached(ParseCCRequestDirectives(trips[p].req))

AsksNoCache(p) == ReqNoCache(ParseCCRequestDirectives(trips[p].req))

\* C7: a round trip whose request carries only-if-cached never calls the
\* upstream transport, and when a stored variant matches the request, that
\* variant is what it returns, whatever its freshness and its directives.
C7_OnlyIfCachedNeverUpstream ==
    \A p \in Procs :
        trips[p].pc # "idle" /\ AsksOnlyIfCached(p) =>
            /\ trips[p].nup = 0
            /\ Answered(p) /\ trips[p].stored # <<>> => trips[p].from = "stored"

\* C8: a GET that carries no-cache, and not only-if-cached, is answered
\* with a stored response only after a validation request of the same
\* round trip went upstream and was answered.
C8_NoCacheValidatesFirst ==
    \A p \in Procs :
        /\ Answered(p) /\ trips[p].req.method = "GET"
        /\ AsksNoCache(p) /\ ~AsksOnlyIfCached(p)
        /\ trips[p].from = "stored"
        => /\ trips[p].kind = "reval"
           /\ trips[p].nup = 1
           /\ trips[p].up # <<>>

\* The stored response p's round trip loaded carries must-revalidate and
\* was past its freshness lifetime when the round trip looked at it.
StaleMustRevalidate(p) ==
    /\ trips[p].stored # <<>>
    /\ LET entry == trips[p].stored[1]
           ccResp == ParseCCResponseDirectives(entry.data)
       IN  /\ MustRevalidate(ccResp)
           /\ trips[p].fresh.Age.Value >= UsefulLife(entry, {}, ccResp)

\* C9: a stored response that carries must-revalidate and is past its
\* freshness lifetime is returned only when the origin answered the
\* conditional request of that round trip with 304: not as a HIT for a
\* request max-stale, not as STALE for stale-while-revalidate or
\* stale-if-error.
C9_MustRevalidateHonoured ==
    \A p \in Procs :
        Answered(p) /\ StaleMustRevalidate(p) /\ trips[p].from = "stored"
        => /\ trips[p].kind = "reval"
           /\ trips[p].up # <<>>
           /\ trips[p].up[1].status = 304
           /\ trips[p].ret[1].xs = <<"REVALIDATED">>

\* C10: no entry is in the backend whose storing request or whose response
\* carries no-store, whether it was written on the miss path or on the
\* revalidation path.
C10_NoStoreNeverWritten ==
    \A k \in DOMAIN backend :
        CacheGet(backend, k) # <<>> =>
            LET entry == CacheGet(backend, k)[1]
            IN  /\ ~ReqNoStore(ParseCCRequestDirectives(entry.by))
                /\ ~RespNoStore(ParseCCResponseDirectives(entry.data))

\* An exchange with upstream under no-store has returned, and its response
\* is not in the backend.
C10_Witness ==
    \E p \in Procs :
        /\ Answered(p) /\ JustReturned(p)
        /\ trips[p].kind \in {"miss", "reval"}
        /\ trips[p].from = "upstream"
        /\ trips[p].up # <<>> /\ trips[p].up[1].status = 200
        /\ \/ ReqNoStore(ParseCCRequestDirectives(trips[p].req))
           \/ RespNoStore(ParseCCResponseDirectives(trips[p].up[1]))
        /\ \A k \in DOMAIN backend :
              CacheGet(backend, k) # <<>> =>
                  CacheGet(backend, k)[1].data.body # trips[p].up[1].body


\* The synchronous revalidation of p's GET was answered 304.
Revalidated304(p) ==
    /\ Answered(p)
    /\ trips[p].req.method = "GET"
    /\ trips[p].kind = "reval"
    /\ trips[p].up # <<>> /\ trips[p].up[1].status = 304

\* C11: after a GET revalidation was answered 304, the entry the backend
\* holds for that variant carries every header field of the 304 (hop-by-hop
\* fields and Content-Length apart), so that the next lookup reads them:
\* applying the update to the stored entry once more changes nothing.
C11_FresheningPersisted ==
    \A p \in Procs :
        Revalidated304(p) /\ JustReturned(p) =>
            LET e == CacheGet(backend, trips[p].stored[1].id)
            IN  /\ e # <<>>
                /\ updateStoredHeaders(e[1].data, trips[p].up[1]) = e[1].data


\* The conditional request of p's GET has been answered 304 by the
\* transport, without error.
Got304(p) ==
    /\ trips[p].req.method = "GET"
    /\ trips[p].kind = "reval"
    /\ trips[p].pc # "upstream"
    /\ trips[p].up # <<>> /\ trips[p].up[1].status = 304

\* C12: when the synchronous revalidation of a GET is answered 304 without
\* transport error, the round trip returns no error and the stored
\* response: its status and its body, not those of the 304, tagged
\* REVALIDATED.
C12_Returns304AsStored ==
    \A p \in Procs :
        Got304(p) =>
            /\ trips[p].pc = "done" /\ ~trips[p].err
            /\ trips[p].from = "stored"
            /\ trips[p].ret[1].status = trips[p].stored[1].data.status
            /\ trips[p].ret[1].body = trips[p].stored[1].data.body
            /\ trips[p].ret[1].xs = <<"REVALIDATED">>

\* A 304 answered with the stored 200 and its body.
C12_Witness ==
    \E p \in Procs :
        /\ Got304(p)
        /\ trips[p].ret # <<>>
        /\ trips[p].ret[1].status = 200
        /\ trips[p].ret[1].body # NoBody
        /\ trips[p].ret[1].xs = <<"REVALIDATED">>


\* The upstream call of p's round trip failed in the transport: a call
\* was made, the round trip is over, and no response came back.
TransportFailed(p) ==
    /\ trips[p].pc \in {"done", "panic"}
    /\ trips[p].nup = 1
    /\ trips[p].up = <<>>

\* The synchronous revalidation of p's GET ended in a transport error or in
\* a 500, 502, 503 or 504.
RevalidationFailed(p) ==
    /\ trips[p].req.method = "GET"
    /\ trips[p].kind = "reval"
    /\ \/ TransportFailed(p)
       \/ /\ trips[p].pc # "upstream" /\ trips[p].up # <<>>
          /\ isStaleErrorAllowed(trips[p].up[1].status)

\* stale-if-error=n of the stored response or of the request covers the
\* staleness of the stored response at the end of the upstream call.
StaleIfErrorPermits(p) ==
    /\ trips[p].stored # <<>>
    /\ \/ CanStaleOnError(trips[p].fresh,
                          ParseCCResponseDirectives(trips[p].stored[1].data),
                          trips[p].end)
       \/ CanStaleOnError(trips[p].fresh, ParseCCRequestDirectives(trips[p].req),
                          trips[p].end)

\* C13: when the synchronous revalidation of a GET ends in a transport
\* error or in a 500, 502, 503 or 504, and stale-if-error of the stored
\* response or of the request permits, the round trip returns the stored
\* response tagged STALE and no error, whatever the error response carries.
C13_StaleIfErrorServed ==
    \A p \in Procs :
        RevalidationFailed(p) /\ StaleIfErrorPermits(p) =>
            /\ trips[p].pc = "done" /\ ~trips[p].err
            /\ trips[p].from = "stored"
            /\ trips[p].ret[1].xs = <<"STALE">>

\* C14: when the upstream call fails in the transport, on the bypass path,
\* on the miss path or in a synchronous revalidation, and stale-if-error
\* does not permit serving stale, the round trip terminates normally and
\* returns the error and no response.
C14_TransportErrorReturned ==
    \A p \in Procs :
        TransportFailed(p) /\ ~StaleIfErrorPermits(p) =>
            /\ trips[p].pc = "done"
            /\ trips[p].err
            /\ trips[p].ret = <<>>


\* C15: a failure of a backend operation during a round trip (a Get, Set or
\* Delete that returns an error, stored bytes that do not deserialize)
\* never makes the round trip return an error or end abnormally: after a
\* failed read a GET is answered as a miss, from upstream, and a failed
\* write or delete leaves the answer as it would have been.
C15_BackendFailuresAbsorbed ==
    \A p \in Procs :
        /\ trips[p].pc # "panic"
        /\ trips[p].pc = "done" =>
              /\ ~trips[p].err /\ trips[p].ret # <<>>
              /\ trips[p].rfail /\ trips[p].req.method = "GET" =>
                    /\ trips[p].ret[1].xs = <<"MISS">>
                    /\ trips[p].nup = 1 /\ trips[p].from = "upstream"
              /\ trips[p].wfail =>
                    /\ trips[p].from = "upstream"
                    /\ trips[p].ret[1].status = trips[p].up[1].status
                    /\ trips[p].ret[1].body = trips[p].up[1].body

\* A GET whose read of a stored list failed and whose store failed too.
C15_Witness ==
    \E p \in Procs :
        /\ Answered(p) /\ trips[p].req.method = "GET"
        /\ trips[p].rfail /\ trips[p].wfail
        /\ RefsKey(trips[p].urlKey) \in DOMAIN backend


\* The stored response a round trip has loaded sends it down the
\* stale-while-revalidate path at the instant at.
OnSWRPath(t, at) ==
    /\ t.stored # <<>>
    /\ HitDecision(t.fresh, ParseCCRequestDirectives(t.req),
                   ParseCCResponseDirectives(t.stored[1].data), at) = "swr"

\* C16: on the stale-while-revalidate path the round trip returns the
\* stored response tagged STALE in the very step that loads it and starts
\* the background task: it has sent nothing upstream itself, and the
\* background upstream call is still unanswered when it returns.
C16_StaleReturnedWithoutWaiting ==
    [][\A p \in Procs :
          /\ trips[p].pc = "getentry" /\ trips'[p].pc # "getentry"
          /\ OnSWRPath(trips'[p], now)
          => /\ trips'[p].pc = "done" /\ ~trips'[p].err
             /\ trips'[p].from = "stored" /\ trips'[p].nup = 0
             /\ trips'[p].ret # <<>> /\ trips'[p].ret[1].xs = <<"STALE">>
             /\ trips'[p].ret[1].body = trips'[p].stored[1].data.body
             /\ bg[trips[p].id].pc = "none"
             /\ bg'[trips[p].id].pc = "upstream"]_vars

\* A round trip has returned STALE and its background call is still
\* unanswered, at its deadline.
C16_Witness ==
    \E p \in Procs :
        /\ Answered(p) /\ trips[p].kind = "swr"
        /\ trips[p].ret[1].xs = <<"STALE">>
        /\ bg[trips[p].id].pc = "upstream" /\ bg[trips[p].id].owner = p
        /\ now >= bg[trips[p].id].deadline


\* C17: cancelling the context of the caller's request after the STALE
\* response was returned does not cancel the background revalidation: no
\* task gives up, before its deadline, because of the caller.
C17_CallerCancelSpared ==
    \A i \in TripIds : bg[i].pc = "done" => bg[i].outcome # "cancelled"


\* The upstream call of task i is answered in this step.
BgAnswered(i) == bg[i].pc = "upstream" /\ bg'[i].pc # "upstream"

\* C18: when the upstream call of a background revalidation returns at or
\* after the task's deadline, the validation-response handler is not run
\* (the task ends as timed out, the response the caller holds stays as it
\* is) and the step writes nothing to the backend, nor does the task later.
C18_LateAnswerAbandoned ==
    [][\A i \in TripIds :
          BgAnswered(i) /\ now >= bg[i].deadline
          => /\ bg'[i].pc = "done" /\ bg'[i].outcome = "timeout"
             /\ backend' = backend /\ trips' = trips]_vars

\* A task has timed out while the backend holds what was stored before it.
C18_Witness ==
    \E i \in TripIds :
        /\ bg[i].pc = "done" /\ bg[i].outcome = "timeout"
        /\ now >= DefaultSWRTimeout
        /\ RefsKey("http://h/a") \in DOMAIN backend


\* Task i errs in this step: its upstream call fails, its context is done
\* when the answer comes, or a backend write of its store fails.
BgErrs(i) ==
    \/ /\ BgAnswered(i) /\ bg'[i].pc = "done"
       /\ bg'[i].uperr \/ bg'[i].outcome \in {"timeout", "cancelled"}
    \/ bg[i].pc \in {"upstream", "setrefs"} /\ ~bg[i].wfail /\ bg'[i].wfail

\* C19: an error in a background revalidation (upstream failure, deadline
\* or cancellation, failed store) changes nothing of any round trip: the
\* response and the error each has returned, the one that started the task
\* included, and the state of those under way stay as they are.
C19_BackgroundErrorsStayInBackground ==
    [][\A i \in TripIds : BgErrs(i) => trips' = trips /\ last' = last]_vars

\* Tasks have ended in an upstream failure and in a failed store while
\* the caller of one holds its STALE response.
C19_Witness ==
    /\ \E i \in TripIds : bg[i].pc = "done" /\ bg[i].uperr /\ bg[i].outcome = "error"
                          /\ HandedOut(i) /\ trips[bg[i].owner].ret[1].xs = <<"STALE">>
    /\ \E i \in TripIds : bg[i].pc = "done" /\ bg[i].wfail


\* Round trip p returns a response served from cache in this step.
ReturnsFromCache(p) ==
    /\ trips[p].pc # "done" /\ trips'[p].pc = "done"
    /\ ~trips'[p].err /\ trips'[p].from = "stored"

\* C20: every response served from cache, tagged HIT, STALE or
\* REVALIDATED, carries when it is returned an Age header equal to
\* max(0, age.value + (now - age.timestamp)) in whole seconds.
C20_AgeOnEveryCachedResponse ==
    [][\A p \in Procs :
          ReturnsFromCache(p)
          => /\ trips'[p].ret[1].xs \in {<<"HIT">>, <<"STALE">>, <<"REVALIDATED">>}
             /\ trips'[p].ret[1].age
                  = SetAgeHeader(trips'[p].stored[1].data, trips'[p].fresh.Age, now).age]_vars


\* The upstream call of an unsafe-method round trip p ends in this step
\* with a transport error or with a 4xx or 5xx status.
UnsafeFails(p) ==
    /\ isUnsafeMethod(trips[p].req)
    /\ trips[p].pc = "upstream" /\ trips'[p].pc # "upstream"
    /\ trips'[p].err \/ (trips'[p].up # <<>> /\ trips'[p].up[1].status >= 400)

\* C21: an unsafe-method request that ends with a 4xx or 5xx status or
\* with a transport error returns at once and leaves the backend as it
\* was: no reference list and no entry is deleted.
C21_FailedUnsafeLeavesBackend ==
    [][\A p \in Procs :
          UnsafeFails(p)
          => /\ backend' = backend
             /\ trips'[p].pc = "done" /\ trips'[p].deleted = {}]_vars

\* A POST has been answered 404 with a Location while the URL it names
\* and its own URL are stored.
C21_Witness ==
    \E p \in Procs :
        /\ Answered(p) /\ trips[p].req.method = "POST"
        /\ trips[p].up # <<>> /\ trips[p].up[1].status = 404
        /\ RefsKey("http://h/a") \in DOMAIN backend
        /\ RefsKey("http://h/b") \in DOMAIN backend


\* The reference lists the backend holds.
StoredLists == {backend[k].refs : k \in {RefsKey(u) : u \in URLKeys} \cap DOMAIN backend}

\* C22: for every reference list the backend holds and every request, the
\* Vary matcher never returns the index of a reference whose Vary is "*",
\* and no round trip loads, so none serves, an entry stored with Vary: *.
C22_VaryStarNeverSelected ==
    /\ \A refs \in StoredLists : \A req \in WorkReqs(work) :
          LET sorted == SortRefs(refs)
              i == VaryHeadersMatch(sorted, req)
          IN  i # -1 => sorted[i + 1].vary # "*"
    /\ \A p \in Procs :
          trips[p].stored # <<>> => trips[p].stored[1].data.vary # "*"

\* A list holds a "*" reference beside a reference that matches, the
\* entry of the "*" reference is stored, and a GET has just been served
\* the other one.
C22_Witness ==
    \E refs \in StoredLists : \E i, j \in 1..Len(refs) : \E p \in Procs :
        /\ refs[i].vary = "*" /\ refs[j].vary # "*"
        /\ CacheGet(backend, refs[i].responseID) # <<>>
        /\ Answered(p) /\ trips[p].from = "stored"
        /\ trips[p].ret[1].xs = <<"HIT">>


\* Round trip p takes a step: it begins, moves on, or deletes a key.
Stepped(p) ==
    \/ trips'[p].id # trips[p].id \/ trips'[p].pc # trips[p].pc
    \/ trips'[p].phase # trips[p].phase \/ trips'[p].todo # trips[p].todo
    \/ trips'[p].deleted # trips[p].deleted

\* What a step of a round trip with a Range header is to look like: sent
\* upstream or returned, tagged BYPASS, with nothing loaded from the
\* backend and the backend as it was.
RangeBypassed(p) ==
    /\ backend' = backend
    /\ trips'[p].pc \in {"upstream", "done"}
    /\ trips'[p].refs = <<>> /\ trips'[p].stored = <<>> /\ trips'[p].deleted = {}
    /\ trips'[p].pc = "done" =>
          /\ ~trips'[p].err /\ trips'[p].nup = 1 /\ trips'[p].from = "upstream"
          /\ trips'[p].ret[1].xs = <<"BYPASS">>

\* No entry of the backend holds a 206.
No206Stored(b) == \A k \in DOMAIN b : b[k].entry # <<>> => b[k].entry[1].data.status # 206

\* C23 as stated: every request that carries a Range header, whatever its
\* method, is forwarded and returned BYPASS without the backend being read
\* or written, and a 206 is never stored.
C23_AsStated ==
    [][/\ \A p \in Procs : Stepped(p) /\ trips'[p].req.range => RangeBypassed(p)
       /\ No206Stored(backend')]_vars

\* C23: a request with a Range header and a method that is not unsafe is
\* forwarded and returned BYPASS without the backend being read or
\* written; one with an unsafe method is forwarded and returned BYPASS as
\* well, but invalidates first like any unsafe request; and a 206 is never
\* stored, whatever request it answers.
C23_RangeBypassesUnlessUnsafe ==
    [][/\ \A p \in Procs :
             Stepped(p) /\ trips'[p].req.range
             => IF isUnsafeMethod(trips'[p].req)
                THEN /\ trips'[p].pc \in {"upstream", "inval", "done"}
                     /\ trips'[p].stored = <<>>
                     /\ trips'[p].pc = "done" =>
                           /\ ~trips'[p].err /\ trips'[p].nup = 1
                           /\ trips'[p].ret[1].xs = <<"BYPASS">>
                ELSE RangeBypassed(p)
       /\ No206Stored(backend')]_vars

\* A GET with a Range header has been answered 206 and returned BYPASS
\* while the URL is stored, after a plain GET.
C23_Witness ==
    \E p \in Procs :
        /\ Answered(p) /\ trips[p].req.method = "GET" /\ trips[p].req.range
        /\ trips[p].up[1].status = 206 /\ trips[p].ret[1].xs = <<"BYPASS">>
        /\ CacheGet(backend, VaryKey(trips[p].urlKey, {})) # <<>>
        /\ trips[p].prev # <<>> /\ ~trips[p].prev[1].req.range


\* Round trip p is a GET with only-if-cached that has loaded no entry.
OnlyIfCachedUnserved(p) ==
    /\ trips[p].pc # "idle" /\ trips[p].req.method = "GET" /\ ~trips[p].req.range
    /\ AsksOnlyIfCached(p) /\ trips[p].stored = <<>>

C25_LegacyStatusFollows ==
    \A p \in Procs :
        Answered(p)
        => /\ trips[p].ret[1].xs \in {<<"HIT">>, <<"STALE">>, <<"REVALIDATED">>}
                => trips[p].ret[1].xcs = <<"1">>
           /\ trips[p].ret[1].xs \in {<<"MISS">>, <<"BYPASS">>}
                => trips[p].ret[1].xcs = <<>>

----------------------------------------------------------------------------
(* The in-memory backend (store/memcache) under concurrent callers *)

MemKeys == {"k1", "k2"}
MemVals == {"v1", "v2"}
Callers == 1..2
MaxCalls == 3

ErrNotExist == "ErrNotExist"

NoCall == [op |-> "none", key |-> "", val |-> "", pc |-> "idle",
           ret |-> <<>>, err |-> "", seen |-> 0]

\* memcache.Open: an empty map behind an unlocked sync.RWMutex.  A key maps
\* to <<>> when absent and to <<bytes>> when present.  flux holds the keys a
\* writer is in the middle of changing; log is the history of the changes
\* made to the map, in the order they were made.
Open ==
    [store |-> [k \in MemKeys |-> <<>>], w |-> FALSE, r |-> 0, flux |-> {},
     calls |-> [c \in Callers |-> NoCall], n |-> 0, log |-> <<>>]

\* sync.RWMutex: a reader enters unless a writer holds the lock.
CanRLockDuringWrite(m) == TRUE

CanRLock(m) == ~m.w

\* sync.RWMutex: a writer enters when nobody holds the lock.
CanLock(m) == ~m.w /\ m.r = 0

\* What the history says k holds: the bytes of the latest Set(k) that no
\* Delete(k) followed, <<>> if there is none.
RECURSIVE Latest(_, _)
Latest(log, k) ==
    IF log = <<>> THEN <<>>
    ELSE IF log[Len(log)].key = k
         THEN IF log[Len(log)].op = "Set" THEN <<log[Len(log)].val>> ELSE <<>>
         ELSE Latest(SubSeq(log, 1, Len(log) - 1), k)

\* A caller calls Get, Set or Delete.
Invoke(c, op, k, v) ==
    /\ mem.calls[c].pc \in {"idle", "done"}
    /\ mem.n < MaxCalls
    /\ mem' = [mem EXCEPT !.n = @ + 1,
                          !.calls[c] = [NoCall EXCEPT !.op = op, !.key = k,
                                                      !.val = v, !.pc = "called"]]
    /\ AtRest /\ UNCHANGED <<keyer, swr>>

\* c.mu.RLock() in Get, c.mu.Lock() in Set and Delete.
Lock(c) ==
    /\ mem.calls[c].pc = "called"
    /\ IF mem.calls[c].op = "Get"
       THEN /\ CanRLock(mem)
            /\ mem' = [mem EXCEPT !.r = @ + 1, !.calls[c].pc = "locked"]
       ELSE /\ CanLock(mem)
            /\ mem' = [mem EXCEPT !.w = TRUE, !.calls[c].pc = "locked"]
    /\ AtRest /\ UNCHANGED <<keyer, swr>>

\* memCache.Get under the read lock: a copy of the bytes, or ErrNotExist.
\* Reading a key of the map while a writer changes it is a data race, and
\* yields any outcome.
Get(c) ==
    /\ mem.calls[c].pc = "locked"
    /\ mem.calls[c].op = "Get"
    /\ LET k == mem.calls[c].key
           outcomes == IF k \in mem.flux
                       THEN {<<>>} \cup {<<v>> : v \in MemVals}
                       ELSE {mem.store[k]}
       IN  \E val \in outcomes :
               mem' = [mem EXCEPT
                   !.calls[c].ret = val,
                   !.calls[c].err = IF val = <<>> THEN ErrNotExist ELSE "nil",
                   !.calls[c].seen = Len(mem.log),
                   !.calls[c].pc = "ret"]
    /\ AtRest /\ UNCHANGED <<keyer, swr>>

\* memCache.Set under the write lock: a copy of the bytes goes into the map.
Set(c) ==
    /\ mem.calls[c].pc = "locked"
    /\ mem.calls[c].op = "Set"
    /\ LET k == mem.calls[c].key
       IN  mem' = [mem EXCEPT
               !.store[k] = <<mem.calls[c].val>>,
               !.flux = @ \cup {k},
               !.log = Append(@, [op |-> "Set", key |-> k,
                                  val |-> mem.calls[c].val]),
               !.calls[c].err = "nil",
               !.calls[c].seen = Len(mem.log),
               !.calls[c].pc = "ret"]
    /\ AtRest /\ UNCHANGED <<keyer, swr>>

\* memCache.Delete under the write lock: ErrNotExist for an absent key,
\* else the key leaves the map.
Delete(c) ==
    /\ mem.calls[c].pc = "locked"
    /\ mem.calls[c].op = "Delete"
    /\ LET k == mem.calls[c].key
       IN  IF mem.store[k] = <<>>
           THEN mem' = [mem EXCEPT !.calls[c].err = ErrNotExist,
                                   !.calls[c].seen = Len(mem.log),
                                   !.calls[c].pc = "ret"]
           ELSE mem' = [mem EXCEPT
                    !.store[k] = <<>>,
                    !.flux = @ \cup {k},
                    !.log = Append(@, [op |-> "Delete", key |-> k, val |-> ""]),
                    !.calls[c].err = "nil",
                    !.calls[c].seen = Len(mem.log),
                    !.calls[c].pc = "ret"]
    /\ AtRest /\ UNCHANGED <<keyer, swr>>

\* The deferred c.mu.RUnlock() or c.mu.Unlock(), and the return.
Unlock(c) ==
    /\ mem.calls[c].pc = "ret"
    /\ IF mem.calls[c].op = "Get"
       THEN mem' = [mem EXCEPT !.r = @ - 1, !.calls[c].pc = "done"]
       ELSE mem' = [mem EXCEPT !.w = FALSE,
                               !.flux = @ \ {mem.calls[c].key},
                               !.calls[c].pc = "done"]
    /\ AtRest /\ UNCHANGED <<keyer, swr>>

NextMem ==
    \/ \E c \in Callers : \E k \in MemKeys : Invoke(c, "Get", k, "")
    \/ \E c \in Callers : \E k \in MemKeys : \E v \in MemVals : Invoke(c, "Set", k, v)
    \/ \E c \in Callers : \E k \in MemKeys : Invoke(c, "Delete", k, "")
    \/ \E c \in Callers : Lock(c)
    \/ \E c \in Callers : Get(c)
    \/ \E c \in Callers : Set(c)
    \/ \E c \in Callers : Delete(c)
    \/ \E c \in Callers : Unlock(c)

SpecMem ==
    /\ Start({"basic"}) /\ keyer = NoKeyer /\ mem = Open
    /\ [][NextMem]_vars

----------------------------------------------------------------------------
Acts(c) == mem.calls[c].pc = "locked" /\ mem'.calls[c].pc = "ret"

\* C27: in the in-memory backend, under any interleaving of concurrent
\* calls, a Get(k) returns the bytes of the latest Set(k) that no Delete(k)
\* followed and ErrNotExist when there is none, changing nothing; a Delete of
\* an absent key returns ErrNotExist and changes nothing; a Delete of a
\* present key and a Set return no error and are the latest change.
C27_MemLinearizable ==
    [][\A c \in Callers : Acts(c) =>
        LET k == mem.calls[c].key
            was == Latest(mem.log, k)
            a == mem'.calls[c]
        IN  CASE a.op = "Get" ->
                   /\ a.ret = was
                   /\ a.err = (IF was = <<>> THEN ErrNotExist ELSE "nil")
                   /\ mem'.store = mem.store /\ mem'.log = mem.log
              [] a.op = "Delete" ->
                   IF was = <<>>
                   THEN /\ a.err = ErrNotExist
                        /\ mem'.store = mem.store /\ mem'.log = mem.log
                   ELSE a.err = "nil" /\ Latest(mem'.log, k) = <<>>
              [] OTHER ->
                   a.err = "nil" /\ Latest(mem'.log, k) = <<a.val>>]_vars

\* Two Sets of one key, then a Get of the key by another caller, which
\* returned the bytes of the second Set.
C27_Witness ==
    /\ mem # NoMem
    /\ mem.log = <<[op |-> "Set", key |-> "k1", val |-> "v1"],
                  [op |-> "Set", key |-> "k1", val |-> "v2"]>>
    /\ mem.calls[1].op = "Get" /\ mem.calls[1].key = "k1"
    /\ mem.calls[1].pc = "ret" /\ mem.calls[1].ret = <<"v2">>
    /\ mem.calls[2].op = "Set" /\ mem.calls[2].pc = "done"

\* The background task i writes the reference list of its URL key.
BgStores(i) ==
    /\ bg[i].pc = "setrefs" /\ bg'[i].pc = "done"
    /\ backend' # backend

\* C28: when a background revalidation stores a new full response for one
\* variant of a URL, the references to the other variants are still in the
\* list afterwards, and the new reference is where the matched one was.
C28_BackgroundStoreKeepsVariants ==
    [][\A i \in TripIds : BgStores(i) =>
        LET old == GetRefs(backend, bg[i].urlKey)
            new == GetRefs(backend', bg[i].urlKey)
            ref == NewRef(bg[i].req, bg[i].up[1], bg[i].urlKey, bg[i].end)
        IN  /\ Len(new) = Len(old)
            /\ \A j \in 1..Len(old) :
                   new[j] = IF old[j].responseID = ref.responseID
                            THEN ref ELSE old[j]]_vars

\* The round trip of p loads its entry and handles the hit.
HitHandled(p) ==
    /\ trips[p].pc = "getentry" /\ trips'[p].pc # "getentry"
    /\ trips'[p].stored # <<>>

StoredFor(k) ==
    {backend[key].entry[1] :
        key \in {x \in DOMAIN backend : x.u = k /\ backend[x].entry # <<>>}}

\* C30: under any interleaving of concurrent round trips for one URL key,
\* its reference list is never longer than the number of distinct
\* vary_resolved maps among the responses stored for that URL.
C30_RefsBoundedByVariants ==
    \A k \in URLKeys :
        Len(GetRefs(backend, k)) <=
            Cardinality({NormalizeVaryHeader(e.data.vary, e.by) : e \in StoredFor(k)})

\* Every round trip has returned.
AllReturned == \A q \in Procs : trips[q].pc \in {"idle", "done", "panic"}

\* What a request made at instant at over backend b is served as a HIT,
\* without an upstream call and without a background revalidation: <<entry>>,
\* or <<>> when it is not served so.
HitFor(b, req, at) ==
    LET refs == SortRefs(GetRefs(b, makeURLKey(req.url)))
        refIndex == VaryHeadersMatch(refs, req)
        entry == CacheGet(b, refs[refIndex + 1].responseID)
        ccReq == ParseCCRequestDirectives(req)
        ccResp == ParseCCResponseDirectives(entry[1].data)
    IN  IF /\ refs # <<>> /\ refIndex # -1
           /\ entry # <<>>
           /\ HitDecision(CalculateFreshness(entry[1], ccReq, ccResp, at),
                          ccReq, ccResp, at) = "serve"
        THEN entry
        ELSE <<>>

\* A new request like that of p would be served, as a HIT, the response p
\* got from upstream.
WouldHit(p) ==
    /\ HitFor(backend, trips[p].req, now) # <<>>
    /\ HitFor(backend, trips[p].req, now)[1].data = trips[p].up[1]

\* The GET of p was forwarded before an unsafe-method request for its URL
\* succeeded, its response arrived after that request had returned, both
\* have returned and no round trip began since.
LateAfterInvalidation(p) ==
    /\ AllReturned
    /\ trips[p].pc = "done" /\ trips[p].late > 0
    /\ trips[p].req.method = "GET" /\ trips[p].up # <<>>
    /\ trips[p].late = ntrips

BgSucceeds(i) ==
    /\ bg[i].pc \in {"upstream", "setrefs"} /\ bg'[i].pc = "done"
    /\ bg'[i].outcome \in {"revalidated", "stored"}
    /\ bg[i].pc = "setrefs" => bg[i].end = now
    /\ \A p \in Procs : ~(trips[p].id > i /\ isUnsafeMethod(trips[p].req))

\* C32: when a background revalidation, answered before its deadline with a
\* 304 or with a storable full response that makes the variant fresh, has
\* finished, the next identical request made within the new freshness
\* lifetime is served a HIT with no upstream call and no new revalidation.
\* The request is one without directives of its own, and it is made at the
\* instant the task finishes.
C32_FreshAfterBackgroundRevalidation ==
    [][\A i \in TripIds : BgSucceeds(i) /\ bg[i].ccReq = {} =>
          HitFor(backend', [bg[i].req EXCEPT !.inm = <<>>, !.ims = <<>>], now) # <<>>]_vars

\* The response round trip p returned on the stale-while-revalidate path is
\* still held by its caller after the step.
HeldStale(p) ==
    /\ trips[p].pc = "done" /\ trips[p].kind = "swr"
    /\ trips'[p].pc = "done" /\ trips'[p].id = trips[p].id

\* C33: the response returned to the caller on the stale-while-revalidate
\* path is not modified by the background revalidation after it has been
\* returned: its headers, X-Httpcache-Status: STALE among them, stay as they
\* were at the moment of return.
C33_ReturnedStaleUntouched ==
    [][\A p \in Procs : HeldStale(p) => trips'[p].ret = trips[p].ret]_vars

\* new is old with the one reference ref put at index idx (counted from 0)
\* when idx is inside old, and added at the end otherwise.
OneChange(old, new, idx, ref) ==
    IF idx >= 0 /\ idx < Len(old)
    THEN /\ Len(new) = Len(old)
         /\ new[idx + 1] = ref
         /\ \A j \in 1..Len(old) : j # idx + 1 => new[j] = old[j]
    ELSE /\ Len(new) = Len(old) + 1
         /\ new[Len(new)] = ref
         /\ SubSeq(new, 1, Len(old)) = old

\* C34: StoreResponse called with an index inside its list overwrites the
\* reference at that index and keeps the length; called with no list, a
\* negative index or an index at or past the end, it appends exactly one
\* reference; the list persisted under the URL key is the list it was given
\* with only that one change. A round trip calls it with its list and index,
\* a background task with no list and the index 0.
C34_StoreResponsePutsOneRef ==
    [][/\ \A p \in Procs :
            trips[p].pc = "setrefs" /\ trips'[p].pc = "done" /\ ~trips'[p].wfail =>
                OneChange(trips[p].refs, GetRefs(backend', trips[p].urlKey),
                          trips[p].refIndex,
                          NewRef(StoringReq(trips[p]), trips[p].up[1],
                                 trips[p].urlKey, trips[p].end))
       /\ \A i \in TripIds :
            bg[i].pc = "setrefs" /\ bg'[i].pc = "done" /\ ~bg'[i].wfail =>
                OneChange(<<>>, GetRefs(backend', bg[i].urlKey), 0,
                          NewRef(bg[i].req, bg[i].up[1], bg[i].urlKey, bg[i].end))]_vars

\* A round trip whose index was inside a list of two references has stored
\* its response, and the list still has two references.
C34_Witness ==
    \E p \in Procs :
        /\ trips[p].pc = "done" /\ trips[p].from = "upstream" /\ ~trips[p].err
        /\ trips[p].ret[1].xs = <<"MISS">>
        /\ Len(trips[p].refs) >= 2
        /\ trips[p].refIndex >= 0 /\ trips[p].refIndex < Len(trips[p].refs)
        /\ Len(GetRefs(backend, trips[p].urlKey)) = Len(trips[p].refs)
        /\ GetRefs(backend, trips[p].urlKey) # trips[p].refs

\* The synchronous revalidation of the variant p matched was answered by a
\* response that carries no-store, and p has returned it; nothing has begun
\* since and no background task is running.
RevalidatedNoStore(p) ==
    /\ trips[p].pc = "done" /\ ~trips[p].err
    /\ trips[p].kind = "reval" /\ trips[p].from = "upstream"
    /\ trips[p].stored # <<>> /\ trips[p].up # <<>>
    /\ RespNoStore(ParseCCResponseDirectives(trips[p].up[1]))
    /\ trips[p].id = ntrips
    /\ \A i \in TripIds : ~TaskRunning(bg[i])

\* C35: when the revalidation of a stored variant receives a response that
\* carries no-store, the stored entry of that variant is deleted from the
\* backend, so that a later request for it is a miss.
C35_NoStoreOnRevalidationDeletes ==
    \A p \in Procs :
        RevalidatedNoStore(p) => CacheGet(backend, trips[p].stored[1].id) = <<>>

\* C36: once every round trip has returned and no background task is
\* running, every entry in the backend is referenced by some reference of
\* the list of its URL key: no write of a list leaves an entry behind
\* unreferenced.
C36_NoUnreferencedEntry ==
    (AllReturned /\ \A i \in TripIds : ~TaskRunning(bg[i])) =>
        \A k \in DOMAIN backend :
            CacheGet(backend, k) # <<>> =>
                \E j \in 1..Len(GetRefs(backend, k.u)) :
                    GetRefs(backend, k.u)[j].responseID = k

\* C37: a GET is never served a stored response that was obtained by a HEAD
\* request, although both methods are handled by the cache and map to the
\* same URL key.
C37_GetNotServedHeadResponse ==
    \A p \in Procs :
        /\ Answered(p) /\ trips[p].req.method = "GET"
        /\ trips[p].from = "stored"
        => trips[p].stored[1].by.method # "HEAD"

\* The round trip of p answered a GET without Accept-Language that repeats
\* the round trip just before it, which missed and stored a response whose
\* Vary names Accept-Language; nothing else was under way while it ran.
OmitsAgain(p) ==
    /\ Answered(p) /\ ~trips[p].ovl
    /\ trips[p].prev # <<>>
    /\ LET first == trips[p].prev[1]
       IN  /\ trips[p].req = first.req
           /\ first.id = trips[p].id - 1
           /\ first.req.method = "GET" /\ first.req.al = <<>>
           /\ first.up # <<>> /\ first.ret # <<>>
           /\ first.ret[1].xs = <<"MISS">>
           /\ first.up[1].vary = "Accept-Language"

\* C38: if a response whose Vary names a header was stored for a request
\* that did not send that header, a later identical request that omits it
\* too selects that stored variant instead of missing and storing another.
C38_OmittedHeaderSelectsVariant ==
    \A p \in Procs :
        OmitsAgain(p) => trips[p].refIndex >= 0 /\ trips[p].kind # "miss"

----------------------------------------------------------------------------
(* performBackgroundRevalidation taken apart. The round trips above take a  *)
(* background task as one process, for what it does to the backend; here    *)
(* each task is the function that waits, the goroutine it starts for the    *)
(* upstream call, the channel errc between them and the context they share. *)

\* A variant of ErrcCap: an unbuffered channel, which holds nothing.
ErrcUnbuffered == Len(<<>>)

\* The capacity of errc.
ErrcCap == 1

\* handleStaleWhileRevalidate starts the task: the context gets its
\* deadline, errc is made, the goroutine starts its upstream call and the
\* function reaches its select.
Spawn(i) ==
    /\ swr[i].go = "none"
    /\ \A j \in 1..MaxTasks : j < i => swr[j].go # "none"
    /\ swr' = [swr EXCEPT ![i] = [NoGo EXCEPT !.go = "call", !.wait = "select"]]
    /\ AtRest /\ UNCHANGED <<keyer, mem>>

\* The context of the task is done: its deadline passes, or the caller
\* cancels the context it was derived from.
CtxDone(i) ==
    /\ swr[i].go # "none" /\ ~swr[i].ctxDone
    /\ swr' = [swr EXCEPT ![i].ctxDone = TRUE]
    /\ AtRest /\ UNCHANGED <<keyer, mem>>

\* roundTripTimed returns in the goroutine, with an error (failed) or a
\* response; the goroutine goes on to its send: of the wrapped error, of
\* the context's error when the context is done, or of what
\* HandleValidationResponse returned, which is nil.
RoundTripTimed(i, failed) ==
    /\ swr[i].go = "call"
    /\ swr' = [swr EXCEPT ![i].go = "send",
                          ![i].val = IF failed \/ swr[i].ctxDone THEN "err" ELSE "nil"]
    /\ AtRest /\ UNCHANGED <<keyer, mem>>

\* errc <- val in the goroutine, which then closes errc and ends. The send
\* goes through when the buffer has room; on a channel without room it
\* needs the function waiting in its select, which then takes the value
\* and returns, cancelling the context.
SendErrc(i) ==
    /\ swr[i].go = "send"
    /\ \/ /\ Len(swr[i].errc) < ErrcCap
          /\ swr' = [swr EXCEPT ![i].go = "exit",
                                ![i].errc = Append(@, swr[i].val)]
       \/ /\ Len(swr[i].errc) >= ErrcCap
          /\ swr[i].wait = "select"
          /\ swr' = [swr EXCEPT ![i].go = "exit", ![i].wait = "returned",
                                ![i].ctxDone = TRUE]
    /\ AtRest /\ UNCHANGED <<keyer, mem>>

\* The select of the function: the context is done, or a value is in errc,
\* whichever is ready; then the function returns and its deferred cancel
\* runs.
SelectErrc(i) ==
    /\ swr[i].wait = "select"
    /\ \/ /\ swr[i].ctxDone
          /\ swr' = [swr EXCEPT ![i].wait = "returned"]
       \/ /\ swr[i].errc # <<>>
          /\ swr' = [swr EXCEPT ![i].wait = "returned", ![i].errc = Tail(@),
                                ![i].ctxDone = TRUE]
    /\ AtRest /\ UNCHANGED <<keyer, mem>>

NextSwr ==
    \/ \E i \in 1..MaxTasks : Spawn(i)
    \/ \E i \in 1..MaxTasks : CtxDone(i)
    \/ \E i \in 1..MaxTasks : \E failed \in BOOLEAN : RoundTripTimed(i, failed)
    \/ \E i \in 1..MaxTasks : SendErrc(i)
    \/ \E i \in 1..MaxTasks : SelectErrc(i)

\* The tasks under the scheduler of the Go runtime: a goroutine that can
\* run does run in the end.
SpecSwr ==
    /\ Start({"swr"}) /\ keyer = NoKeyer /\ mem = NoMem
    /\ [][NextSwr]_vars
    /\ \A i \in 1..MaxTasks : WF_vars(SendErrc(i)) /\ WF_vars(SelectErrc(i))

\* C39: every background revalidation task terminates: once its upstream
\* call has returned, the goroutine that made it ends, and once that call
\* has returned or the context is done, the function that waits returns;
\* neither stays blocked on errc, whichever of the two comes first.
C39_BackgroundTaskTerminates ==
    \A i \in 1..MaxTasks :
        /\ (swr[i].go = "send") ~> (swr[i].go = "exit")
        /\ (swr[i].wait = "select" /\ (swr[i].ctxDone \/ swr[i].go = "send"))
               ~> (swr[i].wait = "returned")

\* The deadline came first: the function has returned on the done context,
\* the goroutine has sent after that and ended, and its value is left in
\* errc.
C39_Witness ==
    \E i \in 1..MaxTasks :
        /\ swr[i].wait = "returned" /\ swr[i].go = "exit"
        /\ swr[i].errc # <<>>

============================================================================
